---- MODULE Spec2Model ----
(***************************************************************************)
(* Verification model of JarvisStreamer (Edwinfpirajan/Jarvis).            *)
(*                                                                         *)
(* The module holds one state machine per subsystem.  Each subsystem has   *)
(* its own variables, its own Init and Next, and its own specification;    *)
(* the variables of the other subsystems stay at their initial values.     *)
(*                                                                         *)
(*   SpecCalc      brain.evaluateExpression (the calc meta-action)         *)
(*   SpecBrain     brain.Brain.ProcessCommand and executor.Registry        *)
(*   SpecTwitch    twitch.Executor.apiRequest and refreshAccessToken       *)
(*   SpecMusic     music.Executor and its playLoop goroutines              *)
(*   SpecPipeline  pipeline.Pipeline, its run loop and recorder goroutines *)
(*   SpecPipelineLive  SpecPipeline with time passing and fair recorders   *)
(*   SpecBacklog   pipeline.Pipeline with its frame queue nearly full      *)
(*   SpecObs       obs.Executor: connection, requests and reader           *)
(*   SpecAuto      the llm and tts composites and their backend selection  *)
(*   SpecPiper     tts.PiperProvider: concurrent Speak calls and player    *)
(*   SpecConfig    config.Load, ApplyDefaults and Validate                 *)
(*   SpecRequests  obs.Executor.sendRequest called concurrently            *)
(***************************************************************************)
EXTENDS Integers, Sequences, FiniteSets, TLC

VARIABLES
    calcExpr,   \* the expression handed to evaluateExpression (a sequence of characters)
    calcOut     \* the (float64, error) it returned; PendingOut before the call

calcVars == <<calcExpr, calcOut>>

VARIABLES
    llmProvider,  \* Brain.llmProvider: "nil" or "set"
    ttsProvider,  \* Brain.ttsProvider: "nil" or "set"
    registry,     \* Registry.executors: executor name -> [available, actions]
    brainCall     \* what the last ProcessCommand did and returned; NoCall before the first

brainVars == <<llmProvider, ttsProvider, registry, brainCall>>

VARIABLES
    accessToken,   \* twitch.Executor.accessToken
    refreshToken,  \* twitch.Executor.refreshToken
    twPc,          \* where the apiRequest call in progress stands
    twRequests,    \* API requests sent by the call in progress
    twRefreshes,   \* token-endpoint requests sent by the call in progress
    twResult       \* what the last apiRequest returned

twitchVars == <<accessToken, refreshToken, twPc, twRequests, twRefreshes, twResult>>

VARIABLES
    hasPlayer,    \* whether exec.LookPath finds mpv, ffplay or afplay
    playlist,     \* music.Executor.playlist: a sequence of tracks
    currentIdx,   \* music.Executor.currentIdx (0-based)
    isPlaying,    \* music.Executor.isPlaying
    isPaused,     \* music.Executor.isPaused
    currentCmd,   \* music.Executor.currentCmd: 0 is nil, l is the command of loop l
    loops,        \* the playLoop goroutines: where each stands, its track, its process
    musicCmd,     \* the action being executed ("idle" between actions) and the last result
    musicLog      \* what has been observed since the last action was issued

musicVars == <<hasPlayer, playlist, currentIdx, isPlaying, isPaused, currentCmd,
               loops, musicCmd, musicLog>>

VARIABLES
    vadEnabled,    \* cfg.Audio.VAD.Enabled
    state,         \* Pipeline.state
    audioBuffer,   \* Pipeline.audioBuffer: the frames written since the last Reset
    wakeWordChan,  \* number of triggers buffered in wakeWordChan (capacity 1)
    hotkeyDown,    \* number of events buffered in hotkeyDown (capacity 1)
    hotkeyUp,      \* number of events buffered in hotkeyUp (capacity 1)
    audioChan,     \* the frames buffered in audioChan
    hasSpeech,     \* Pipeline.hasSpeech
    speechStart,   \* time since Pipeline.speechStart, -1 for the zero time
    silenceStart,  \* time since Pipeline.silenceStart, -1 for the zero time
    halted,        \* "stop" once stopChan is closed, "ctx" once the context is done, else "no"
    mainPc,        \* the run goroutine: "new", "select", "finalize" or "exited"
    tasks,         \* the goroutines running recordUntilSilence and processRecordedAudio
    calls,         \* number of frames fed and of triggers sent so far
    audioIn,       \* the frame handleAudio is working on and the state it read on entry
    pipeLog        \* the state changes notified during a session started by one wake word

pipeVars == <<vadEnabled, state, audioBuffer, wakeWordChan, hotkeyDown, hotkeyUp, audioChan,
              hasSpeech, speechStart, silenceStart, halted, mainPc, tasks, calls, audioIn,
              pipeLog>>

VARIABLES
    obsEnabled,    \* obs.Executor.enabled
    obsConnected,  \* obs.Executor.connected
    obsConn,       \* obs.Executor.conn: a socket, 0 for nil
    obsSockets,    \* the sockets dialed so far: "open" or "closed"
    obsReaders,    \* the readMessages goroutines, one per successful Connect
    obsRequestID,  \* obs.Executor.requestID
    obsResponses,  \* obs.Executor.responses: request id -> messages in its channel
    obsReq,        \* the request in flight, and what the last one returned
    obsLog         \* what the last Connect, dispatch and setVolume did

obsVars == <<obsEnabled, obsConnected, obsConn, obsSockets, obsReaders, obsRequestID,
             obsResponses, obsReq, obsLog>>

VARIABLES
    llmBackends,   \* the providers held by the llm autoProvider, in order
    ttsBackends,   \* the providers held by the tts autoProvider, in order
    autoCall       \* the last operation run on a composite and what it did

autoVars == <<llmBackends, ttsBackends, autoCall>>

VARIABLES
    piperIsPlaying,   \* PiperProvider.isPlaying
    piperCurrentCmd,  \* PiperProvider.currentCmd: 0 for nil, else the Speak call that made it
    piperPc,          \* where each Speak call is
    piperProcs        \* the player processes running, named by their Speak call

piperVars == <<piperIsPlaying, piperCurrentCmd, piperPc, piperProcs>>

VARIABLES
    cfgTree,   \* a Config: the tree decoded from a file, then what a caller holds
    cfgLog     \* the last operation of package config and what it returned

cfgVars == <<cfgTree, cfgLog>>

VARIABLES
    rqConnected,  \* obs.Executor.connected
    rqRequestID,  \* obs.Executor.requestID
    rqResponses,  \* the keys of obs.Executor.responses
    rqChans,      \* the reply channels made so far: id -> messages buffered
    rqCalls,      \* the sendRequest calls: where each stands, its id, what it returned
    rqWire,       \* the frames sent by the server and not read yet
    rqFrames,     \* number of frames the server has sent
    rqReader,     \* the readMessages goroutine
    rqIssued      \* the ids issued, in the order of issue

reqVars == <<rqConnected, rqRequestID, rqResponses, rqChans, rqCalls, rqWire, rqFrames,
             rqReader, rqIssued>>

(***************************************************************************)
(* Strings are sequences of one-character strings, so that splitting,      *)
(* indexing, parsing and formatting are computed and not assumed.          *)
(***************************************************************************)
Digits == <<"0", "1", "2", "3", "4", "5", "6", "7", "8", "9">>

DigitSet == {Digits[i] : i \in 1..10}

DigitVal(c) == (CHOOSE i \in 1..10 : Digits[i] = c) - 1

\* Go's s[from:to] on 0-based half-open bounds, as a 1-based sequence.
Slice(s, from, to) == SubSeq(s, from + 1, to)

\* strings.LastIndex(s, c) for a one-character c: 0-based, -1 when absent.
LastIndex(s, c) ==
    IF \E i \in 1..Len(s) : s[i] = c
    THEN (CHOOSE i \in 1..Len(s) : s[i] = c /\ \A j \in (i+1)..Len(s) : s[j] # c) - 1
    ELSE -1

\* strings.Index(s, c) for a one-character c: 0-based, -1 when absent.
Index(s, c) ==
    IF \E i \in 1..Len(s) : s[i] = c
    THEN (CHOOSE i \in 1..Len(s) : s[i] = c /\ \A j \in 1..(i-1) : s[j] # c) - 1
    ELSE -1

\* strings.ReplaceAll(s, c, "") for a one-character c.
RECURSIVE RemoveAll(_, _)
RemoveAll(s, c) ==
    IF s = <<>> THEN <<>>
    ELSE IF Head(s) = c THEN RemoveAll(Tail(s), c)
    ELSE <<Head(s)>> \o RemoveAll(Tail(s), c)

\* regexp.Split(s, -1) for a pattern matching exactly one character of seps:
\* the substrings between the matches; the separators themselves are dropped.
RECURSIVE SplitAcc(_, _, _)
SplitAcc(s, seps, cur) ==
    IF s = <<>> THEN <<cur>>
    ELSE IF Head(s) \in seps THEN <<cur>> \o SplitAcc(Tail(s), seps, <<>>)
    ELSE SplitAcc(Tail(s), seps, Append(cur, Head(s)))

Split(s, seps) == SplitAcc(s, seps, <<>>)

(***************************************************************************)
(* float64 values are modelled as exact rationals [n, d] with d > 0 in     *)
(* lowest terms (binary rounding is not modelled).                         *)
(***************************************************************************)
Abs(x) == IF x < 0 THEN -x ELSE x

RECURSIVE GCD(_, _)
GCD(a, b) == IF b = 0 THEN a ELSE GCD(b, a % b)

Rat(n, d) ==
    LET g == GCD(Abs(n), Abs(d))
        s == IF d < 0 THEN -1 ELSE 1
    IN  [n |-> (s * n) \div g, d |-> (s * d) \div g]

RatAdd(a, b) == Rat(a.n * b.d + b.n * a.d, a.d * b.d)
RatSub(a, b) == Rat(a.n * b.d - b.n * a.d, a.d * b.d)
RatMul(a, b) == Rat(a.n * b.n, a.d * b.d)
RatDiv(a, b) == Rat(a.n * b.d, a.d * b.n)
RatInt(k) == [n |-> k, d |-> 1]

Ok(v) == [ok |-> TRUE, val |-> v]
Err(e) == [ok |-> FALSE, err |-> e]

RECURSIVE DigitsToNat(_, _)
DigitsToNat(s, acc) ==
    IF s = <<>> THEN acc ELSE DigitsToNat(Tail(s), 10 * acc + DigitVal(Head(s)))

RECURSIVE Pow10(_)
Pow10(k) == IF k = 0 THEN 1 ELSE 10 * Pow10(k - 1)

\* strconv.ParseFloat(s, 64) on the characters the validator lets through:
\* digits with at most one ".", at least one digit; anything else is a syntax error.
ParseFloat(s) ==
    LET dots == {i \in 1..Len(s) : s[i] = "."}
        dot  == IF dots = {} THEN Len(s) + 1 ELSE CHOOSE i \in dots : TRUE
        ip   == SubSeq(s, 1, dot - 1)
        fp   == SubSeq(s, dot + 1, Len(s))
    IN  IF /\ \A i \in 1..Len(s) : s[i] \in DigitSet \cup {"."}
           /\ Cardinality(dots) <= 1
           /\ Len(ip) + Len(fp) >= 1
        THEN Ok(Rat(DigitsToNat(ip \o fp, 0), Pow10(Len(fp))))
        ELSE Err("syntax")

RECURSIVE NatToDigits(_)
NatToDigits(k) ==
    IF k < 10 THEN <<Digits[k + 1]>> ELSE Append(NatToDigits(k \div 10), Digits[(k % 10) + 1])

\* The fractional digits of rem/d by long division, until the remainder is 0
\* or `left` digits are written (float64 carries 17 significant digits).
RECURSIVE FracDigits(_, _, _)
FracDigits(rem, d, left) ==
    IF rem = 0 \/ left = 0 THEN <<>>
    ELSE <<Digits[((rem * 10) \div d) + 1]>> \o FracDigits((rem * 10) % d, d, left - 1)

RECURSIVE StripZeros(_)
StripZeros(s) ==
    IF s # <<>> /\ s[Len(s)] = "0" THEN StripZeros(SubSeq(s, 1, Len(s) - 1)) ELSE s

\* fmt.Sprintf("%g", v): the shortest decimal form; the exponent form is used
\* once the decimal exponent reaches 6 (2000000 prints as 2e+06).
FormatG(v) ==
    LET a    == Abs(v.n)
        sign == IF v.n < 0 THEN <<"-">> ELSE <<>>
        ip   == a \div v.d
        frac == FracDigits(a % v.d, v.d, 17)
        ds   == NatToDigits(ip)
        mant == StripZeros(Tail(ds))
        ex   == NatToDigits(Len(ds) - 1)
    IN  IF v.d = 1 /\ Len(ds) > 6
        THEN sign \o <<Head(ds)>> \o (IF mant = <<>> THEN <<>> ELSE <<".">> \o mant)
                  \o <<"e", "+">> \o (IF Len(ex) = 1 THEN <<"0">> ELSE <<>>) \o ex
        ELSE sign \o ds \o (IF frac = <<>> THEN <<>> ELSE <<".">> \o frac)

(***************************************************************************)
(* brain.parseAndMultiplyDivide                                            *)
(***************************************************************************)
\* The for loop of parseAndMultiplyDivide, from index i (0-based) with the
\* running result.  parts[i-1][len(parts[i-1])-1:] panics on an empty part.
RECURSIVE MulDivLoop(_, _, _)
MulDivLoop(parts, i, result) ==
    IF i >= Len(parts) THEN Ok(result)
    ELSE IF parts[i] = <<>> THEN Err("panic: slice bounds out of range")
    ELSE LET operator == parts[i][Len(parts[i])]
             nextVal  == ParseFloat(parts[i + 1])
         IN  IF ~nextVal.ok THEN Err("número inválido")
             ELSE IF operator = "*"
                  THEN MulDivLoop(parts, i + 2, RatMul(result, nextVal.val))
             ELSE IF operator = "/"
                  THEN IF nextVal.val.n = 0 THEN Err("división entre cero")
                       ELSE MulDivLoop(parts, i + 2, RatDiv(result, nextVal.val))
             ELSE MulDivLoop(parts, i + 2, result)

parseAndMultiplyDivide(expr) ==
    IF expr = <<>> THEN Err("expresión vacía")
    ELSE LET parts == Split(expr, {"*", "/"})
             first == ParseFloat(parts[1])
         IN  IF ~first.ok THEN Err("número inválido")
             ELSE MulDivLoop(parts, 1, first.val)

(***************************************************************************)
(* brain.simpleEval                                                        *)
(***************************************************************************)
\* The for loop over the +/- parts, from index i (0-based).  When the part
\* before parts[i] does not end in an operator the code takes "+" and steps
\* i back by one before reading parts[i].
RECURSIVE AddSubLoop(_, _, _)
AddSubLoop(parts, i, result) ==
    IF i >= Len(parts) THEN Ok(result)
    ELSE IF parts[i] = <<>> THEN Err("panic: slice bounds out of range")
    ELSE LET last     == parts[i][Len(parts[i])]
             isOp     == last \in {"+", "-"}
             operator == IF isOp THEN last ELSE "+"
             j        == IF isOp THEN i ELSE i - 1
             nextVal  == parseAndMultiplyDivide(parts[j + 1])
         IN  IF ~nextVal.ok THEN nextVal
             ELSE IF operator = "+"
                  THEN AddSubLoop(parts, j + 2, RatAdd(result, nextVal.val))
                  ELSE AddSubLoop(parts, j + 2, RatSub(result, nextVal.val))

\* simpleEval on an expression without "(": split on +/- and fold.
FlatEval(expr) ==
    LET parts == Split(expr, {"+", "-"})
        first == parseAndMultiplyDivide(parts[1])
    IN  IF ~first.ok THEN first ELSE AddSubLoop(parts, 1, first.val)

RECURSIVE simpleEval(_)
simpleEval(expr) ==
    LET openIdx == LastIndex(expr, "(")
    IN  IF openIdx = -1 THEN FlatEval(expr)
        ELSE LET rel == Index(Slice(expr, openIdx, Len(expr)), ")")
             IN  IF rel = -1 THEN Err("paréntesis no balanceados")
                 ELSE LET closeIdx == rel + openIdx
                          inner    == simpleEval(Slice(expr, openIdx + 1, closeIdx))
                      IN  IF ~inner.ok THEN inner
                          ELSE simpleEval(Slice(expr, 0, openIdx) \o FormatG(inner.val)
                                          \o Slice(expr, closeIdx + 1, Len(expr)))

\* The characters the validator's class [0-9+\-*/.()^] accepts.
ValidChars == DigitSet \cup {"+", "-", "*", "/", ".", "(", ")", "^"}

evaluateExpression(expr) ==
    LET e == RemoveAll(expr, " ")
    IN  IF e = <<>> \/ \E i \in 1..Len(e) : e[i] \notin ValidChars
        THEN Err("expresión inválida")
        ELSE simpleEval(e)

(***************************************************************************)
(* The calculator as a state machine: an expression is chosen, then        *)
(* evaluateExpression is applied to it once.                               *)
(***************************************************************************)
MaxExprLen == 4

CalcAlphabet == {"0", "2", "3", "+", "-", "*", "/", "(", ")"}

RECURSIVE StringsUpTo(_, _)
StringsUpTo(alphabet, k) ==
    IF k = 0 THEN {<<>>}
    ELSE LET shorter == StringsUpTo(alphabet, k - 1)
         IN  shorter \cup {Append(s, c) : s \in {t \in shorter : Len(t) = k - 1}, c \in alphabet}

\* The expressions the specification names, beside every short string.
NamedExprs ==
    { <<"2", "+", "2">>, <<"5", "*", "8">>, <<"2", "0", "/", "4">>,
      <<"(", "2", "+", "3", ")", "*", "4">>, <<"1", "/", "0">>,
      <<"2", "^", "3">>, <<"2", " ", "+", " ", "3">>, <<"1", ".", "5", "+", "1">> }

CalcInputs == StringsUpTo(CalcAlphabet, MaxExprLen) \cup NamedExprs

PendingOut == [ok |-> FALSE, err |-> "pending"]

CalcInit ==
    /\ calcExpr \in CalcInputs
    /\ calcOut = PendingOut

CalcIdle ==
    /\ calcExpr = <<>>
    /\ calcOut = PendingOut

CalcEvaluate ==
    /\ calcOut = PendingOut
    /\ calcOut' = evaluateExpression(calcExpr)
    /\ UNCHANGED calcExpr

CalcNext == CalcEvaluate /\ UNCHANGED <<brainVars, twitchVars, musicVars, pipeVars, obsVars, autoVars, piperVars, cfgVars, reqVars>>

(***************************************************************************)
(* Standard arithmetic, for stating what the calculator is meant to        *)
(* return: an expression is a sum or difference of terms, a term is a      *)
(* product or quotient of factors, a factor is a number or an expression   *)
(* in parentheses; every level is folded left to right.                    *)
(***************************************************************************)
\* Parenthesis depth in front of position i.
Depth(s, i) ==
    Cardinality({j \in 1..(i-1) : s[j] = "("}) - Cardinality({j \in 1..(i-1) : s[j] = ")"})

\* The positions of the operators of ops that stand outside every parenthesis.
TopLevel(s, ops) == {i \in 1..Len(s) : s[i] \in ops /\ Depth(s, i) = 0}

Max(S) == CHOOSE x \in S : \A y \in S : y <= x

\* A non-negative decimal number: digits, optionally a "." between digits.
IsNumber(s) ==
    /\ s # <<>>
    /\ \A i \in 1..Len(s) : s[i] \in DigitSet \cup {"."}
    /\ Cardinality({i \in 1..Len(s) : s[i] = "."}) <= 1
    /\ s[1] # "." /\ s[Len(s)] # "."

RECURSIVE WellFormed(_)
WellFormed(s) ==
    LET add == TopLevel(s, {"+", "-"})
        mul == TopLevel(s, {"*", "/"})
    IN  IF add # {}
        THEN WellFormed(SubSeq(s, 1, Max(add) - 1)) /\ WellFormed(SubSeq(s, Max(add) + 1, Len(s)))
                /\ TopLevel(SubSeq(s, Max(add) + 1, Len(s)), {"+", "-"}) = {}
        ELSE IF mul # {}
        THEN WellFormed(SubSeq(s, 1, Max(mul) - 1)) /\ WellFormed(SubSeq(s, Max(mul) + 1, Len(s)))
        ELSE IF Len(s) >= 2 /\ s[1] = "(" /\ s[Len(s)] = ")"
        THEN WellFormed(SubSeq(s, 2, Len(s) - 1))
        ELSE IsNumber(s)

\* The value of a well-formed expression: Ok(v), or Err("div0") when a
\* division in it has a zero divisor.
RECURSIVE StdEval(_)
StdEval(s) ==
    LET add == TopLevel(s, {"+", "-"})
        mul == TopLevel(s, {"*", "/"})
        k   == IF add # {} THEN Max(add) ELSE Max(mul)
        l   == StdEval(SubSeq(s, 1, k - 1))
        r   == StdEval(SubSeq(s, k + 1, Len(s)))
    IN  IF add # {} \/ mul # {}
        THEN IF ~l.ok THEN l
             ELSE IF ~r.ok THEN r
             ELSE IF s[k] = "+" THEN Ok(RatAdd(l.val, r.val))
             ELSE IF s[k] = "-" THEN Ok(RatSub(l.val, r.val))
             ELSE IF s[k] = "*" THEN Ok(RatMul(l.val, r.val))
             ELSE IF r.val.n = 0 THEN Err("div0")
             ELSE Ok(RatDiv(l.val, r.val))
        ELSE IF s[1] = "(" THEN StdEval(SubSeq(s, 2, Len(s) - 1))
        ELSE ParseFloat(s)

CalcDone == calcOut # PendingOut

\* C7: for every expression built from non-negative decimal numbers, the
\* operators + - * / and balanced parentheses, without a division by zero,
\* evaluateExpression returns the standard arithmetic value (* and / bind
\* tighter than + and -, each level folded left to right).
C7_StandardValue ==
    (CalcDone /\ WellFormed(calcExpr) /\ StdEval(calcExpr).ok)
        => calcOut = StdEval(calcExpr)

\* C8: every expression in which a division has a zero divisor is rejected
\* with the division-by-zero error instead of a number.
C8_DivisionByZeroRejected ==
    (CalcDone /\ WellFormed(calcExpr) /\ StdEval(calcExpr) = Err("div0"))
        => calcOut = Err("división entre cero")

(***************************************************************************)
(* The Brain and the executor registry.                                    *)
(*                                                                         *)
(* An action name is its sequence of "."-separated segments ("music.play"  *)
(* is <<"music", "play">>, "" is <<>>); a text is a sequence of pieces, so *)
(* that Sprintf and Join are concatenations and "" is <<>>.  An error is   *)
(* NilErr or E(text).                                                      *)
(***************************************************************************)
NilErr == [nil |-> TRUE, msg |-> <<>>]
E(msg) == [nil |-> FALSE, msg |-> msg]

NewResult(message) == [Success |-> TRUE, Message |-> message, Error |-> <<>>]
NewErrorResult(err) == [Success |-> FALSE, Message |-> <<>>, Error |-> err.msg]

\* strings.HasPrefix(action, name + ".")
HasPrefix(action, name) == Len(action) >= 2 /\ action[1] = name

\* The executors that can be registered: the three of the repository and an
\* executor named "system" that claims the "system." actions.
ExecNames == {"twitch", "obs", "music", "system"}

SupportedActions(name) ==
    CASE name = "twitch" -> << <<"twitch", "clip">>, <<"twitch", "title">>, <<"twitch", "category">>,
                               <<"twitch", "ban">>, <<"twitch", "timeout">>, <<"twitch", "unban">> >>
      [] name = "obs"    -> << <<"obs", "scene">>, <<"obs", "source", "show">>, <<"obs", "source", "hide">>,
                               <<"obs", "volume">>, <<"obs", "mute">>, <<"obs", "unmute">>, <<"obs", "text">> >>
      [] name = "music"  -> << <<"music", "play">>, <<"music", "pause">>, <<"music", "resume">>,
                               <<"music", "next">>, <<"music", "previous">>, <<"music", "volume">>,
                               <<"music", "stop">> >>
      [] OTHER           -> << <<name, "status">>, <<name, "help">> >>

CanHandle(name, action) == HasPrefix(action, name)

\* Registry.FindExecutor: the executors a range over the map may return for
\* the action (Go's map iteration order is unspecified).
FindExecutor(reg, action) == {n \in DOMAIN reg : CanHandle(n, action)}

RegistryExecute_SkipsAvailability(reg, action, pick, outcome) ==
    IF pick = ""
    THEN LET err == E(<<"no executor found for action: ">> \o action.Action)
         IN  [result |-> NewErrorResult(err), err |-> err, executed |-> {}]
    ELSE [result |-> outcome.result, err |-> outcome.err, executed |-> {pick}]

\* Registry.Execute with the executor `pick` that FindExecutor returned
\* ("" when it found none) and `outcome`, what that executor's Execute
\* returns if it is called.
RegistryExecute(reg, action, pick, outcome) ==
    IF pick = ""
    THEN LET err == E(<<"no executor found for action: ">> \o action.Action)
         IN  [result |-> NewErrorResult(err), err |-> err, executed |-> {}]
    ELSE IF ~reg[pick].available
    THEN LET err == E(<<"executor ", pick, " is not available">>)
         IN  [result |-> NewErrorResult(err), err |-> err, executed |-> {}]
    ELSE [result |-> outcome.result, err |-> outcome.err, executed |-> {pick}]

\* Registry.GetAllActions
RECURSIVE GetAllActions(_, _)
GetAllActions(reg, names) ==
    IF names = {} THEN <<>>
    ELSE LET n == CHOOSE x \in names : TRUE
         IN  SupportedActions(n) \o GetAllActions(reg, names \ {n})

\* Brain.handleStatus: the LLM line, the TTS line, then one entry for each of
\* twitch, obs, music that is registered.
RECURSIVE StatusOf(_, _)
StatusOf(reg, names) ==
    IF names = <<>> THEN <<>>
    ELSE (IF Head(names) \in DOMAIN reg
          THEN << <<Head(names), IF reg[Head(names)].available
                                 THEN ": conectado" ELSE ": desconectado">> >>
          ELSE <<>>) \o StatusOf(reg, Tail(names))

handleStatus(reg, tts, llmAvail, ttsAvail) ==
    LET status == << <<"LLM: ", IF llmAvail THEN "activo" ELSE "no disponible">> >>
                  \o << <<"TTS: ", IF tts # "nil" /\ ttsAvail THEN "activo" ELSE "no disponible">> >>
                  \o StatusOf(reg, <<"twitch", "obs", "music">>)
    IN  [response |-> <<"Estado del sistema: ">> \o status, err |-> NilErr]

\* Brain.handleHelp: the number of supported actions with at least two
\* segments, by first segment, for twitch, obs and music.
handleHelp(reg) ==
    LET actions == GetAllActions(reg, DOMAIN reg)
        count(c) == Cardinality({i \in 1..Len(actions) :
                                    Len(actions[i]) >= 2 /\ actions[i][1] = c})
        line(c, label) == IF count(c) > 0 THEN << <<label, count(c)>> >> ELSE <<>>
    IN  [response |-> <<"Puedo ayudarte con:">> \o line("twitch", "- Twitch: ")
                      \o line("obs", "- OBS: ") \o line("music", "- Música: ")
                      \o <<"¿Qué necesitas?">>,
         err |-> NilErr]

\* Brain.handleCalc: the reply is the model's, the computed value is only logged.
handleCalc(action) ==
    IF ~action.Params.has \/ action.Params.expression = <<>>
    THEN [response |-> <<"No entiendo la expresión matemática.">>, err |-> NilErr]
    ELSE LET r == evaluateExpression(action.Params.expression)
         IN  IF ~r.ok
             THEN [response |-> <<"No pude calcular esa expresión: ", r.err>>, err |-> NilErr]
             ELSE [response |-> action.Reply, err |-> NilErr]

\* The tail of Brain.ProcessCommand: the action goes to the registry, and
\* whatever the registry returns the caller gets a text and a nil error.
Dispatch_PropagatesError(reg, action, pick, outcome) ==
    LET r == RegistryExecute(reg, action, pick, outcome)
    IN  IF ~r.err.nil
        THEN [response |-> <<>>,
              err |-> r.err, executed |-> r.executed, dispatched |-> TRUE, ran |-> r]
        ELSE [response |-> action.Reply,
              err |-> NilErr, executed |-> r.executed, dispatched |-> TRUE, ran |-> r]

Dispatch(reg, action, pick, outcome) ==
    LET r == RegistryExecute(reg, action, pick, outcome)
    IN  IF ~r.err.nil
        THEN [response |-> action.Reply \o <<". Sin embargo, hubo un error: ">> \o r.err.msg,
              err |-> NilErr, executed |-> r.executed, dispatched |-> TRUE, ran |-> r]
        ELSE IF ~r.result.Success
        THEN [response |-> action.Reply \o <<". Error: ">> \o r.result.Error,
              err |-> NilErr, executed |-> r.executed, dispatched |-> TRUE, ran |-> r]
        ELSE [response |-> action.Reply,
              err |-> NilErr, executed |-> r.executed, dispatched |-> TRUE, ran |-> r]

NoRun == [result |-> NewResult(<<>>), err |-> NilErr, executed |-> {}]

\* A return of ProcessCommand that did not go through the registry.
Direct(r) == [response |-> r.response, err |-> r.err, executed |-> {},
              dispatched |-> FALSE, ran |-> NoRun]

IsMetaAction_WithoutHelp(name) == name \in {<<"system", "status">>, <<"calc">>}

\* The actions ProcessCommand answers itself.
IsMetaAction(name) == name \in {<<"system", "status">>, <<"system", "help">>, <<"calc">>}

\* Brain.ProcessCommand, after the model has produced `action`.
Interpret(reg, tts, action, pick, outcome, llmAvail2, ttsAvail) ==
    IF action.Action = <<"none">> \/ action.Action = <<>>
    THEN Direct([response |-> action.Reply, err |-> NilErr])
    ELSE IF IsMetaAction(action.Action)
    THEN IF action.Action = <<"system", "status">>
         THEN Direct(handleStatus(reg, tts, llmAvail2, ttsAvail))
         ELSE IF action.Action = <<"system", "help">>
         THEN Direct(handleHelp(reg))
         ELSE Direct(handleCalc(action))
    ELSE Dispatch(reg, action, pick, outcome)

NoProviderText == <<"No hay ningún proveedor de IA disponible.">>

ProcessCommandOf_OnlyNilCheck(llm, tts, reg, in) ==
    IF llm = "nil"
    THEN Direct([response |-> NoProviderText, err |-> NilErr])
            @@ [completed |-> FALSE, action |-> <<"-">>, reply |-> <<>>]
    ELSE Interpret(reg, tts, in.completion.action, in.pick, in.outcome, in.llmAvail2, in.ttsAvail)
            @@ [completed |-> TRUE, action |-> in.completion.action.Action,
                reply |-> in.completion.action.Reply]

\* Brain.ProcessCommand.  in: what the environment answers during the call
\* (the provider's IsAvailable and Complete, the executor found, what its
\* Execute returns).
ProcessCommandOf(llm, tts, reg, in) ==
    IF llm = "nil" \/ ~in.llmAvail
    THEN Direct([response |-> NoProviderText, err |-> NilErr])
            @@ [completed |-> FALSE, action |-> <<"-">>, reply |-> <<>>]
    ELSE IF ~in.completion.err.nil
    THEN Direct([response |-> <<>>,
                 err |-> E(<<"failed to interpret command: ">> \o in.completion.err.msg)])
            @@ [completed |-> TRUE, action |-> <<"-">>, reply |-> <<>>]
    ELSE Interpret(reg, tts, in.completion.action, in.pick, in.outcome, in.llmAvail2, in.ttsAvail)
            @@ [completed |-> TRUE, action |-> in.completion.action.Action,
                reply |-> in.completion.action.Reply]

(***************************************************************************)
(* The Brain as a state machine: executors are registered, providers are   *)
(* set, and commands are processed one at a time.                          *)
(***************************************************************************)
NoCall ==
    Direct([response |-> <<>>, err |-> NilErr])
        @@ [completed |-> FALSE, action |-> <<"-">>, reply |-> <<>>, called |-> FALSE,
            llmUsable |-> FALSE, handlers |-> <<>>]

\* What the model may answer.
ActionNames ==
    { <<>>, <<"none">>, <<"system", "status">>, <<"system", "help">>, <<"calc">>,
      <<"music", "play">>, <<"obs", "scene">>, <<"system", "reboot">>, <<"lights", "on">> }

Replies == {<<>>, <<"Hecho">>}

NoParams == [has |-> FALSE, expression |-> <<>>]

CalcParams ==
    {NoParams} \cup {[has |-> TRUE, expression |-> x] :
                        x \in {<<>>, <<"2", "+", "2">>, <<"1", "/", "0">>, <<"2", "^", "3">>}}

\* What an executor's Execute may return: (Result, error).
ExecOutcomes ==
    { [result |-> NewResult(<<"done">>), err |-> NilErr],
      [result |-> NewErrorResult(E(<<"not enabled">>)), err |-> NilErr],
      [result |-> NewErrorResult(E(<<"walk failed">>)), err |-> E(<<"walk failed">>)],
      [result |-> NewErrorResult(E(<<>>)), err |-> NilErr] }

DefaultOutcome == [result |-> NewResult(<<"done">>), err |-> NilErr]

Picks(reg, name) ==
    IF FindExecutor(reg, name) = {} THEN {""} ELSE FindExecutor(reg, name)

NoCompletion == [err |-> NilErr, action |-> [Action |-> <<>>, Params |-> NoParams, Reply |-> <<>>]]

BaseInput ==
    [llmAvail |-> TRUE, llmAvail2 |-> TRUE, ttsAvail |-> TRUE, completion |-> NoCompletion,
     pick |-> "", outcome |-> DefaultOutcome]

\* The environment's answers during one ProcessCommand: only the answers the
\* call can read are varied.
BrainInputs(reg) ==
    {[BaseInput EXCEPT !.llmAvail = FALSE]}
    \cup {[BaseInput EXCEPT !.completion.err = E(<<"timeout">>)]}
    \cup {[BaseInput EXCEPT !.completion.action.Action = a, !.completion.action.Reply = r] :
            a \in {<<>>, <<"none">>, <<"system", "help">>}, r \in Replies}
    \cup {[BaseInput EXCEPT !.completion.action.Action = <<"system", "status">>,
                            !.llmAvail2 = l, !.ttsAvail = t] : l \in BOOLEAN, t \in BOOLEAN}
    \cup {[BaseInput EXCEPT !.completion.action.Action = <<"calc">>,
                            !.completion.action.Params = p,
                            !.completion.action.Reply = r] : p \in CalcParams, r \in Replies}
    \cup UNION {{[BaseInput EXCEPT !.completion.action.Action = a,
                                   !.completion.action.Reply = r,
                                   !.pick = k, !.outcome = o] :
                    k \in Picks(reg, a), r \in Replies, o \in ExecOutcomes} :
                a \in ActionNames \ {<<>>, <<"none">>}}

BrainInit ==
    /\ llmProvider \in {"nil", "set"}
    /\ ttsProvider \in {"nil", "set"}
    /\ registry = <<>>
    /\ brainCall = NoCall

BrainIdle ==
    /\ llmProvider = "nil"
    /\ ttsProvider = "nil"
    /\ registry = <<>>
    /\ brainCall = NoCall

\* Brain.RegisterExecutor: the entry under the executor's name is replaced.
RegisterExecutor(name, available) ==
    /\ registry' = [n \in DOMAIN registry \cup {name} |->
                        IF n = name THEN [available |-> available] ELSE registry[n]]
    /\ UNCHANGED <<llmProvider, ttsProvider, brainCall>>

SetLLM(p) ==
    /\ llmProvider' = p
    /\ UNCHANGED <<ttsProvider, registry, brainCall>>

SetTTS(p) ==
    /\ ttsProvider' = p
    /\ UNCHANGED <<llmProvider, registry, brainCall>>

\* One call of ProcessCommand.  Next to what the call returned and did, the
\* record keeps what held when it was made: whether a provider was set and
\* answered IsAvailable with true, and, for a dispatched action, IsAvailable
\* of each registered executor whose CanHandle accepts the action.
ProcessCommand(in) ==
    /\ brainCall' =
         LET r == ProcessCommandOf(llmProvider, ttsProvider, registry, in)
         IN  r @@ [called |-> TRUE,
                   llmUsable |-> llmProvider # "nil" /\ in.llmAvail,
                   handlers |-> IF r.dispatched
                                THEN [n \in {m \in DOMAIN registry : CanHandle(m, r.action)}
                                        |-> registry[n].available]
                                ELSE <<>>]
    /\ UNCHANGED <<llmProvider, ttsProvider, registry>>

BrainOnly == UNCHANGED <<calcVars, twitchVars, musicVars, pipeVars, obsVars, autoVars, piperVars, cfgVars, reqVars>>

BrainNext ==
    \/ \E n \in ExecNames, a \in BOOLEAN : RegisterExecutor(n, a) /\ BrainOnly
    \/ \E p \in {"nil", "set"} : SetLLM(p) /\ BrainOnly
    \/ \E p \in {"nil", "set"} : SetTTS(p) /\ BrainOnly
    \/ \E in \in BrainInputs(registry) : ProcessCommand(in) /\ BrainOnly

BrainDispatched == brainCall.called /\ brainCall.dispatched

\* The error text the registry's answer carries.
DispatchErrorText ==
    IF ~brainCall.ran.err.nil THEN brainCall.ran.err.msg ELSE brainCall.ran.result.Error

DispatchSucceeded == brainCall.ran.err.nil /\ brainCall.ran.result.Success

IsPrefix(a, b) == Len(a) <= Len(b) /\ SubSeq(b, 1, Len(a)) = a
IsSuffix(a, b) == Len(a) <= Len(b) /\ SubSeq(b, Len(b) - Len(a) + 1, Len(b)) = a

\* C9: when the model returns system.status, system.help or calc, the
\* registry's Execute is not called and no executor's Execute runs, whatever
\* is registered, an executor named "system" included.
C9_MetaActionsNeverExecute ==
    (brainCall.called /\ brainCall.action \in
        {<<"system", "status">>, <<"system", "help">>, <<"calc">>})
        => (~brainCall.dispatched /\ brainCall.executed = {})

C9_Witness ==
    /\ brainCall.called
    /\ brainCall.action = <<"system", "help">>
    /\ "system" \in DOMAIN registry
    /\ registry["system"].available
    /\ brainCall.executed = {}

\* C10: once the model has produced an action, dispatch never makes
\* ProcessCommand return an error: a missing executor, an unavailable one, an
\* executor error or an unsuccessful result give the reply followed by the
\* error text and a nil error, and the reply comes back unmodified only when
\* the result reports success.
C10_DispatchFailureIsAReply ==
    BrainDispatched =>
        /\ brainCall.err = NilErr
        /\ IsPrefix(brainCall.reply, brainCall.response)
        /\ (brainCall.response = brainCall.reply) <=> DispatchSucceeded
        /\ ~DispatchSucceeded => IsSuffix(DispatchErrorText, brainCall.response)

C10_Witness ==
    /\ BrainDispatched
    /\ brainCall.executed = {"music"}
    /\ ~brainCall.ran.err.nil
    /\ brainCall.response # brainCall.reply
    /\ brainCall.err = NilErr

\* C11: when no provider is set or the provider's IsAvailable returns false,
\* ProcessCommand returns the fixed "no provider" text and a nil error, and
\* calls neither Complete nor any executor.
C11_NoProviderFixedReply ==
    (brainCall.called /\ ~brainCall.llmUsable) =>
        /\ brainCall.response = NoProviderText
        /\ brainCall.err = NilErr
        /\ ~brainCall.completed
        /\ ~brainCall.dispatched
        /\ brainCall.executed = {}

C11_Witness ==
    /\ brainCall.called
    /\ ~brainCall.llmUsable
    /\ llmProvider = "set"
    /\ \E n \in DOMAIN registry : registry[n].available
    /\ brainCall.response = NoProviderText

\* C12: Registry.Execute runs an executor's Execute only if that executor's
\* CanHandle accepts the action and its IsAvailable is true; with no
\* executor for the action it returns the "no executor found" error, with
\* an unavailable one it returns an error, and in both cases no Execute runs.
C12_ExecuteOnlyAvailableHandler ==
    BrainDispatched =>
        /\ \A n \in brainCall.executed :
                n \in DOMAIN brainCall.handlers /\ brainCall.handlers[n]
        /\ DOMAIN brainCall.handlers = {} =>
                /\ brainCall.ran.err = E(<<"no executor found for action: ">> \o brainCall.action)
                /\ brainCall.executed = {}
        /\ (DOMAIN brainCall.handlers # {}
                /\ \A n \in DOMAIN brainCall.handlers : ~brainCall.handlers[n]) =>
                /\ ~brainCall.ran.err.nil
                /\ brainCall.executed = {}

C12_Witness ==
    /\ BrainDispatched
    /\ DOMAIN brainCall.handlers = {"music"}
    /\ ~brainCall.handlers["music"]
    /\ ~brainCall.ran.err.nil
    /\ brainCall.executed = {}

(***************************************************************************)
(* twitch.Executor.apiRequest and refreshAccessToken.                      *)
(*                                                                         *)
(* One call is followed through its HTTP round trips: "request" is the     *)
(* call (or a recursive call) about to send the API request, "refresh" is  *)
(* refreshAccessToken about to run after a 401.                            *)
(***************************************************************************)
MaxRounds == 3

Tokens == {"", "tokA", "tokB"}

StatusOK == 200
StatusUnauthorized == 401

\* What the API may answer: a transport error (0), or a status code.
ApiAnswers == {0, StatusOK, StatusUnauthorized, 404}

\* What the token endpoint may answer: a transport error, a status other than
\* 200, a body that does not decode, or new tokens.
RefreshAnswers ==
    {[kind |-> k, access |-> "", refresh |-> ""] : k \in {"neterr", "rejected", "undecodable"}}
    \cup {[kind |-> "ok", access |-> a, refresh |-> r] : a \in Tokens, r \in Tokens}

NoResult == [body |-> "", err |-> <<"-">>]

TwitchInit ==
    /\ accessToken \in Tokens
    /\ refreshToken \in Tokens
    /\ twPc = "idle"
    /\ twRequests = 0
    /\ twRefreshes = 0
    /\ twResult = NoResult

TwitchIdle ==
    /\ accessToken = ""
    /\ refreshToken = ""
    /\ twPc = "idle"
    /\ twRequests = 0
    /\ twRefreshes = 0
    /\ twResult = NoResult

\* twitch.Executor.SetTokens
SetTokens(a, r) ==
    /\ twPc \in {"idle", "done"}
    /\ accessToken' = a
    /\ refreshToken' = r
    /\ UNCHANGED <<twPc, twRequests, twRefreshes, twResult>>

\* A caller enters apiRequest.
ApiRequestCall ==
    /\ twPc \in {"idle", "done"}
    /\ twPc' = "request"
    /\ twRequests' = 0
    /\ twRefreshes' = 0
    /\ twResult' = NoResult
    /\ UNCHANGED <<accessToken, refreshToken>>

\* What apiRequest does with the answer to its request: a 401 leads to
\* refreshAccessToken, everything else returns.
AfterAnswer(status) ==
    IF status = 0 THEN [pc |-> "done", res |-> [body |-> "", err |-> <<"request failed">>]]
    ELSE IF status = StatusUnauthorized THEN [pc |-> "refresh", res |-> NoResult]
    ELSE IF status >= 400 THEN [pc |-> "done", res |-> [body |-> "", err |-> <<"API error">>]]
    ELSE [pc |-> "done", res |-> [body |-> "body", err |-> <<>>]]

\* apiRequest sends the request with the current access token and reads the answer.
ApiRequestSend(status) ==
    /\ twPc = "request"
    /\ twRequests < MaxRounds
    /\ twRequests' = twRequests + 1
    /\ twPc' = AfterAnswer(status).pc
    /\ twResult' = AfterAnswer(status).res
    /\ UNCHANGED <<accessToken, refreshToken, twRefreshes>>

\* What apiRequest does once refreshAccessToken has returned: an error ends
\* the call, success calls apiRequest again with the same arguments.
AfterRefresh_RetriesAnyway(ok, why) == [pc |-> "request", res |-> NoResult]

AfterRefresh(ok, why) ==
    IF ok THEN [pc |-> "request", res |-> NoResult]
    ELSE [pc |-> "done",
          res |-> [body |-> "", err |-> <<"unauthorized and failed to refresh token: ", why>>]]

\* refreshAccessToken without a refresh token: no request is sent.
RefreshWithoutToken ==
    /\ twPc = "refresh"
    /\ refreshToken = ""
    /\ twPc' = AfterRefresh(FALSE, "no refresh token available").pc
    /\ twResult' = AfterRefresh(FALSE, "no refresh token available").res
    /\ UNCHANGED <<accessToken, refreshToken, twRequests, twRefreshes>>

\* refreshAccessToken posts the refresh token and stores the tokens of a 200 answer.
RefreshSend(ans) ==
    /\ twPc = "refresh"
    /\ refreshToken # ""
    /\ twRefreshes < MaxRounds
    /\ twRefreshes' = twRefreshes + 1
    /\ twPc' = AfterRefresh(ans.kind = "ok", ans.kind).pc
    /\ twResult' = AfterRefresh(ans.kind = "ok", ans.kind).res
    /\ accessToken' = IF ans.kind = "ok" THEN ans.access ELSE accessToken
    /\ refreshToken' = IF ans.kind = "ok" THEN ans.refresh ELSE refreshToken
    /\ UNCHANGED twRequests

TwitchOnly == UNCHANGED <<calcVars, brainVars, musicVars, pipeVars, obsVars, autoVars, piperVars, cfgVars, reqVars>>

TwitchNext ==
    \/ \E a \in Tokens, r \in Tokens : SetTokens(a, r) /\ TwitchOnly
    \/ ApiRequestCall /\ TwitchOnly
    \/ \E st \in ApiAnswers : ApiRequestSend(st) /\ TwitchOnly
    \/ RefreshWithoutToken /\ TwitchOnly
    \/ \E ans \in RefreshAnswers : RefreshSend(ans) /\ TwitchOnly

\* C2: within one apiRequest call at most one token refresh and at most one
\* retry of the original request are performed; a second 401 after a
\* successful refresh is not refreshed or retried again.
C2_OneRefreshOneRetry == twRefreshes <= 1 /\ twRequests <= 2

(***************************************************************************)
(* music.Executor: the actions and the playLoop goroutines.                *)
(*                                                                         *)
(* The actions of the executor arrive one at a time; the playback loops    *)
(* run concurrently with them.  Each step below is one critical section of *)
(* e.mu, or one statement outside it.  musicLog holds what has been        *)
(* observed since the last action was issued.  A loop is "off", or stands  *)
(* at                                                                      *)
(*   "top"        the head of the for loop                                 *)
(*   "playTrack"  entering playTrack with its track                        *)
(*   "run"        currentCmd is set, cmd.Run() has not started the process *)
(*   "wait"       inside cmd.Run(), the player process exists              *)
(*   "after"      playTrack has returned                                   *)
(* Indices are 0-based as in the code: playlist[i] is At(playlist, i).     *)
(***************************************************************************)
MaxTracks == 2
MaxLoops == 2

LoopIds == 1..MaxLoops

At(seq, i) == seq[i + 1]

InRange(seq, i) == 0 <= i /\ i < Len(seq)

LoopOff == [pc |-> "off", proc |-> "none"]

ActiveLoops == {l \in LoopIds : loops[l].pc # "off"}

FreeLoops == LoopIds \ ActiveLoops

RunningProcs == {l \in LoopIds : loops[l].proc = "running"}

IdleCmd == [pc |-> "idle", op |-> "none", ok |-> TRUE, msg |-> "", track |-> 0, err |-> NilErr]

Crashed == musicCmd.pc = "panic"

\* stopInForce, pauseInForce, nextArmed: the last action was a stop, a pause,
\* a next at the last index, issued while a track was playing.
NoLog ==
    [stopInForce |-> FALSE, startedAfterStop |-> FALSE,
     nextArmed |-> FALSE, nextStarted |-> -1,
     prevBefore |-> -1, prevAfter |-> -1, prevReturned |-> FALSE,
     pauseInForce |-> FALSE, pauseIdx |-> -1, startedWhilePaused |-> FALSE, resumeIdx |-> -1]

MusicInit ==
    /\ hasPlayer \in BOOLEAN
    /\ playlist = <<>>
    /\ currentIdx = 0
    /\ isPlaying = FALSE
    /\ isPaused = FALSE
    /\ currentCmd = 0
    /\ loops = [l \in LoopIds |-> LoopOff]
    /\ musicCmd = IdleCmd
    /\ musicLog = NoLog

MusicIdle ==
    /\ hasPlayer = FALSE
    /\ playlist = <<>>
    /\ currentIdx = 0
    /\ isPlaying = FALSE
    /\ isPaused = FALSE
    /\ currentCmd = 0
    /\ loops = <<>>
    /\ musicCmd = IdleCmd
    /\ musicLog = NoLog

\* `go e.playLoop()`: a loop that is off starts at the head of the for loop.
Spawn(ls, l) == [ls EXCEPT ![l] = [pc |-> "top", proc |-> "none"]]

\* e.currentCmd.Process.Kill() behind `e.currentCmd != nil &&
\* e.currentCmd.Process != nil`: the process of currentCmd is killed if it
\* has been started.
KillCurrent(ls, cmd) ==
    IF cmd # 0 /\ ls[cmd].proc = "running"
    THEN [ls EXCEPT ![cmd].proc = "killed"]
    ELSE ls

\* The goroutines parked in a blocking receive from, or a blocking send to,
\* the unbuffered stopChan.  playLoop receives in a select with a default
\* case and stopPlayback sends in a select with a default case: neither
\* ever parks.
ParkedReceivers == {l \in ActiveLoops : FALSE}
ParkedSenders == {c \in {"stop"} : FALSE}

\* What an action returns: the Result (ok, msg, track) and a nil error.
Done(op, ok, msg, track) ==
    [pc |-> "idle", op |-> op, ok |-> ok, msg |-> msg, track |-> track, err |-> NilErr]

(***************************************************************************)
(* music.play, in three steps: loadPlaylist and shufflePlaylist under the  *)
(* lock; then currentIdx = 0 and `go e.playLoop()`; then the read of       *)
(* e.playlist[e.currentIdx] for the result, outside the lock.              *)
(***************************************************************************)
\* loadPlaylist and shufflePlaylist: the files found by the scan replace the
\* playlist.  A track is named by the place it has in the playlist once
\* shuffled, so the playlist of n tracks is <<1, ..., n>>.
\* loadPlaylist returns nil whatever the scan meets, so play goes on to
\* `len(e.playlist) == 0`.
PlayAfterLoad_StartsAnyway(n) == [IdleCmd EXCEPT !.pc = "play.start", !.op = "play"]

PlayAfterLoad(n) ==
    IF n = 0
    THEN Done("play", FALSE, "no music found", 0)
    ELSE [IdleCmd EXCEPT !.pc = "play.start", !.op = "play"]

PlayLoad(n) ==
    /\ musicCmd.pc = "idle"
    /\ FreeLoops # {}
    /\ playlist' = [i \in 1..n |-> i]
    /\ musicCmd' = PlayAfterLoad(n)
    /\ musicLog' = NoLog
    /\ UNCHANGED <<hasPlayer, currentIdx, isPlaying, isPaused, currentCmd, loops>>

PlayStart ==
    /\ musicCmd.pc = "play.start"
    /\ currentIdx' = 0
    /\ \E l \in FreeLoops : loops' = Spawn(loops, l)
    /\ musicCmd' = [musicCmd EXCEPT !.pc = "play.return"]
    /\ UNCHANGED <<hasPlayer, playlist, isPlaying, isPaused, currentCmd, musicLog>>

PlayReturn ==
    /\ musicCmd.pc = "play.return"
    /\ musicCmd' = IF InRange(playlist, currentIdx)
                   THEN Done("play", TRUE, "Playing music", At(playlist, currentIdx))
                   ELSE [IdleCmd EXCEPT !.pc = "panic", !.op = "play", !.ok = FALSE,
                                        !.msg = "index out of range"]
    /\ UNCHANGED <<hasPlayer, playlist, currentIdx, isPlaying, isPaused, currentCmd,
                   loops, musicLog>>

\* A track is playing: one loop, inside cmd.Run() on the track at currentIdx.
TrackPlaying ==
    /\ Cardinality(ActiveLoops) = 1
    /\ \E l \in ActiveLoops : loops[l].pc = "wait" /\ loops[l].proc = "running"
    /\ isPlaying /\ ~isPaused

\* music.pause
Pause ==
    /\ musicCmd.pc = "idle"
    /\ IF ~isPlaying
       THEN /\ musicCmd' = Done("pause", FALSE, "nothing is playing", 0)
            /\ musicLog' = NoLog
            /\ UNCHANGED <<loops, isPaused>>
       ELSE /\ loops' = KillCurrent(loops, currentCmd)
            /\ isPaused' = TRUE
            /\ musicCmd' = Done("pause", TRUE, "Music paused", 0)
            /\ musicLog' = IF TrackPlaying
                           THEN [NoLog EXCEPT !.pauseInForce = TRUE, !.pauseIdx = currentIdx]
                           ELSE NoLog
    /\ UNCHANGED <<hasPlayer, playlist, currentIdx, isPlaying, currentCmd>>

\* music.resume
Resume ==
    /\ musicCmd.pc = "idle"
    /\ FreeLoops # {}
    /\ IF ~isPaused
       THEN /\ musicCmd' = Done("resume", FALSE, "music is not paused", 0)
            /\ musicLog' = NoLog
            /\ UNCHANGED <<loops, isPaused>>
       ELSE /\ isPaused' = FALSE
            /\ \E l \in FreeLoops : loops' = Spawn(loops, l)
            /\ musicCmd' = Done("resume", TRUE, "Music resumed", 0)
            /\ musicLog' = [NoLog EXCEPT !.pauseIdx = musicLog.pauseIdx,
                                         !.resumeIdx = currentIdx]
    /\ UNCHANGED <<hasPlayer, playlist, currentIdx, isPlaying, currentCmd>>

\* The index music.next computes for the track it reports.
NextIdx == IF currentIdx + 1 >= Len(playlist) THEN 0 ELSE currentIdx + 1

\* What music.next leaves in e.currentIdx: nextIdx is computed and reported,
\* it is not stored.
NextStoredIdx == currentIdx

\* music.next
NextTrack ==
    /\ musicCmd.pc = "idle"
    /\ IF Len(playlist) = 0
       THEN /\ musicCmd' = Done("next", FALSE, "no playlist", 0)
            /\ musicLog' = NoLog
            /\ UNCHANGED <<loops, currentIdx>>
       ELSE /\ loops' = KillCurrent(loops, currentCmd)
            /\ currentIdx' = NextStoredIdx
            /\ musicCmd' = Done("next", TRUE, "Next track",
                                IF NextIdx < Len(playlist) THEN At(playlist, NextIdx) ELSE 0)
            /\ musicLog' = [NoLog EXCEPT
                                !.nextArmed = TrackPlaying /\ currentIdx = Len(playlist) - 1]
    /\ UNCHANGED <<hasPlayer, playlist, isPlaying, isPaused, currentCmd>>

\* The index music.previous stores: two back, a negative index replaced by
\* len-2, and a still negative one by 0.
PrevIdx ==
    LET a == currentIdx - 2
        b == IF a < 0 THEN Len(playlist) - 2 ELSE a
    IN  IF b < 0 THEN 0 ELSE b

\* music.previous: the result reports e.playlist[e.currentIdx+1].
Previous ==
    /\ musicCmd.pc = "idle"
    /\ IF Len(playlist) = 0
       THEN /\ musicCmd' = Done("previous", FALSE, "no playlist", 0)
            /\ musicLog' = NoLog
            /\ UNCHANGED <<loops, currentIdx>>
       ELSE /\ loops' = KillCurrent(loops, currentCmd)
            /\ currentIdx' = PrevIdx
            /\ musicCmd' = IF InRange(playlist, PrevIdx + 1)
                           THEN Done("previous", TRUE, "Previous track", At(playlist, PrevIdx + 1))
                           ELSE [IdleCmd EXCEPT !.pc = "panic", !.op = "previous", !.ok = FALSE,
                                                !.msg = "index out of range"]
            /\ musicLog' = [NoLog EXCEPT !.prevBefore = currentIdx, !.prevAfter = PrevIdx,
                                         !.prevReturned = InRange(playlist, PrevIdx + 1)]
    /\ UNCHANGED <<hasPlayer, playlist, isPlaying, isPaused, currentCmd>>

\* music.stop (stopPlayback): kill, a non-blocking send on stopChan, flags
\* cleared.  The send hands the signal over only to a loop parked in a
\* receive; otherwise the default case is taken and nothing is left behind.
Stop ==
    /\ musicCmd.pc = "idle"
    /\ loops' = [l \in LoopIds |->
                    IF l \in ParkedReceivers
                    THEN [KillCurrent(loops, currentCmd)[l] EXCEPT !.pc = "off"]
                    ELSE KillCurrent(loops, currentCmd)[l]]
    /\ isPlaying' = FALSE
    /\ isPaused' = FALSE
    /\ musicCmd' = Done("stop", TRUE, "Music stopped", 0)
    /\ musicLog' = [NoLog EXCEPT !.stopInForce = TrackPlaying]
    /\ UNCHANGED <<hasPlayer, playlist, currentIdx, currentCmd>>

(***************************************************************************)
(* playLoop and playTrack                                                  *)
(***************************************************************************)
\* The head of the for loop: past the end the loop returns, otherwise it
\* takes the track at currentIdx and sets the flags.
LoopTop(l) ==
    /\ loops[l].pc = "top"
    /\ IF currentIdx >= Len(playlist)
       THEN /\ isPlaying' = FALSE
            /\ loops' = [loops EXCEPT ![l] = LoopOff]
            /\ musicLog' = [musicLog EXCEPT
                                !.nextStarted = IF musicLog.nextArmed /\ @ = -1 THEN -2 ELSE @]
            /\ UNCHANGED isPaused
       ELSE /\ isPlaying' = TRUE
            /\ isPaused' = FALSE
            /\ loops' = [loops EXCEPT ![l].pc = "playTrack"]
            /\ musicLog' = [musicLog EXCEPT
                                !.startedAfterStop = @ \/ musicLog.stopInForce,
                                !.startedWhilePaused = @ \/ musicLog.pauseInForce,
                                !.nextStarted = IF musicLog.nextArmed /\ @ = -1
                                                THEN currentIdx ELSE @]
    /\ UNCHANGED <<hasPlayer, playlist, currentIdx, currentCmd, musicCmd>>

\* playTrack up to `e.currentCmd = cmd`: without a player it returns an error at once.
LoopPlayTrack(l) ==
    /\ loops[l].pc = "playTrack"
    /\ IF hasPlayer
       THEN /\ currentCmd' = l
            /\ loops' = [loops EXCEPT ![l].pc = "run"]
       ELSE /\ loops' = [loops EXCEPT ![l].pc = "after"]
            /\ UNCHANGED currentCmd
    /\ UNCHANGED <<hasPlayer, playlist, currentIdx, isPlaying, isPaused, musicCmd, musicLog>>

\* cmd.Run() starts the player process.
LoopRun(l) ==
    /\ loops[l].pc = "run"
    /\ loops' = [loops EXCEPT ![l].pc = "wait", ![l].proc = "running"]
    /\ UNCHANGED <<hasPlayer, playlist, currentIdx, isPlaying, isPaused, currentCmd,
                   musicCmd, musicLog>>

\* cmd.Run() returns, the track having ended or the process having been
\* killed, and playTrack clears currentCmd.
LoopRunReturns(l) ==
    /\ loops[l].pc = "wait"
    /\ currentCmd' = 0
    /\ loops' = [loops EXCEPT ![l].pc = "after", ![l].proc = "none"]
    /\ UNCHANGED <<hasPlayer, playlist, currentIdx, isPlaying, isPaused, musicCmd, musicLog>>

\* After playTrack: the select on stopChan, whose receive is taken only from
\* a parked sender, then currentIdx++.
LoopAfterTrack(l) ==
    /\ loops[l].pc = "after"
    /\ IF ParkedSenders # {}
       THEN /\ isPlaying' = FALSE
            /\ loops' = [loops EXCEPT ![l] = LoopOff]
            /\ UNCHANGED currentIdx
       ELSE /\ currentIdx' = currentIdx + 1
            /\ loops' = [loops EXCEPT ![l].pc = "top"]
            /\ UNCHANGED isPlaying
    /\ UNCHANGED <<hasPlayer, playlist, isPaused, currentCmd, musicCmd, musicLog>>

MusicOnly == UNCHANGED <<calcVars, brainVars, twitchVars, pipeVars, obsVars, autoVars, piperVars, cfgVars, reqVars>>

MusicNext ==
    \/ \E n \in 0..MaxTracks : PlayLoad(n) /\ MusicOnly
    \/ PlayStart /\ MusicOnly
    \/ PlayReturn /\ MusicOnly
    \/ Pause /\ MusicOnly
    \/ Resume /\ MusicOnly
    \/ NextTrack /\ MusicOnly
    \/ Previous /\ MusicOnly
    \/ Stop /\ MusicOnly
    \/ \E l \in LoopIds : LoopTop(l) /\ MusicOnly
    \/ \E l \in LoopIds : LoopPlayTrack(l) /\ MusicOnly
    \/ \E l \in LoopIds : LoopRun(l) /\ MusicOnly
    \/ \E l \in LoopIds : LoopRunReturns(l) /\ MusicOnly
    \/ \E l \in LoopIds : LoopAfterTrack(l) /\ MusicOnly

(***************************************************************************)
(* The processing pipeline (package pipeline).                             *)
(*                                                                         *)
(* The run goroutine serves one event per turn of its select; a handler    *)
(* runs to completion before the next event is taken, so each handler is   *)
(* one action.  recordUntilSilence and processRecordedAudio run in the     *)
(* goroutines spawned by handleWakeWord and handleAudio, or in the run     *)
(* goroutine itself after a hotkey release (task 0); they are cut at the   *)
(* calls that block or that other goroutines can observe:                  *)
(*   "wait"      inside recordUntilSilence                                 *)
(*   "begin"     about to call setState(StateProcessing)                   *)
(*   "snapshot"  about to take and reset the audio buffer                  *)
(*   "stt"       about to call sttProvider.Transcribe                      *)
(*   "brain"     about to call brain.ProcessCommand                        *)
(*   "speak"     about to call brain.ProcessAndSpeak                       *)
(*   "end"       about to run the deferred setState                        *)
(* Time advances in ticks; an instant is kept as the time elapsed since    *)
(* it, which stops growing once it has passed the duration it is compared  *)
(* with.  A frame is "loud" when its RMS exceeds the VAD threshold and     *)
(* "quiet" otherwise.                                                      *)
(***************************************************************************)
MaxTasks == 1

MaxFeed == 2

MaxTriggers == 2

SilenceThresholdTicks == 1

MinSpeechTicks == 1

MaxRecordTicks == 2

AudioChanCap == 100

Frames == {"loud", "quiet"}

TaskIds == 0..MaxTasks

\* What one run of processRecordedAudio has done so far: the calls of
\* Brain.ProcessCommand, the call that failed, the error callback, Speak.
NoTurn == [runs |-> 0, failed |-> "none", reported |-> "none", spoke |-> FALSE]

\* audio is the slice returned by audioBuffer.Bytes() as its holder sees it
\* now, taken is what it held when it was taken, shared tells whether it
\* still lies in the array the buffer writes to.
TaskOff == [pc |-> "off", timer |-> 0, onset |-> -1, turn |-> NoTurn,
            audio |-> <<>>, taken |-> <<>>, shared |-> FALSE]

FreeTasks == {t \in 1..MaxTasks : tasks[t].pc = "off"}

NoFrame == [frame |-> "none", entry |-> "idle"]

NoSession == [solo |-> "none", trace |-> <<>>]

DeferredState_Processing == "processing"

DeferredState == "idle"

\* setState: the callback is invoked only when the state changes.
Notified(log, old, new) ==
    IF log.solo = "active" /\ old # new
    THEN [log EXCEPT !.trace = Append(@, new)]
    ELSE log

PipelineInit ==
    /\ vadEnabled \in BOOLEAN
    /\ state = "idle"
    /\ audioBuffer = <<>>
    /\ wakeWordChan = 0
    /\ hotkeyDown = 0
    /\ hotkeyUp = 0
    /\ audioChan = <<>>
    /\ hasSpeech = FALSE
    /\ speechStart = -1
    /\ silenceStart = -1
    /\ halted = "no"
    /\ mainPc = "new"
    /\ tasks = [t \in TaskIds |-> TaskOff]
    /\ calls = [frames |-> 0, triggers |-> 0]
    /\ audioIn = NoFrame
    /\ pipeLog = NoSession

PipelineIdle ==
    /\ vadEnabled = FALSE
    /\ state = "idle"
    /\ audioBuffer = <<>>
    /\ wakeWordChan = 0
    /\ hotkeyDown = 0
    /\ hotkeyUp = 0
    /\ audioChan = <<>>
    /\ hasSpeech = FALSE
    /\ speechStart = -1
    /\ silenceStart = -1
    /\ halted = "no"
    /\ mainPc = "new"
    /\ tasks = <<>>
    /\ calls = [frames |-> 0, triggers |-> 0]
    /\ audioIn = NoFrame
    /\ pipeLog = NoSession

Start ==
    /\ mainPc = "new"
    /\ state' = "idle"
    /\ mainPc' = "select"
    /\ UNCHANGED <<audioIn, vadEnabled, audioBuffer, wakeWordChan, hotkeyDown, hotkeyUp, audioChan,
                   hasSpeech, speechStart, silenceStart, halted, tasks, calls, pipeLog>>

PipelineStop ==
    /\ halted = "no"
    /\ halted' = "stop"
    /\ UNCHANGED <<audioIn, vadEnabled, state, audioBuffer, wakeWordChan, hotkeyDown, hotkeyUp,
                   audioChan, hasSpeech, speechStart, silenceStart, mainPc, tasks, calls,
                   pipeLog>>

CancelContext ==
    /\ halted = "no"
    /\ halted' = "ctx"
    /\ UNCHANGED <<audioIn, vadEnabled, state, audioBuffer, wakeWordChan, hotkeyDown, hotkeyUp,
                   audioChan, hasSpeech, speechStart, silenceStart, mainPc, tasks, calls,
                   pipeLog>>

TriggerWakeWord ==
    /\ calls.triggers < MaxTriggers
    /\ calls' = [calls EXCEPT !.triggers = @ + 1]
    /\ wakeWordChan' = 1
    /\ UNCHANGED <<audioIn, vadEnabled, state, audioBuffer, hotkeyDown, hotkeyUp, audioChan,
                   hasSpeech, speechStart, silenceStart, halted, mainPc, tasks, pipeLog>>

TriggerHotkeyDown ==
    /\ calls.triggers < MaxTriggers
    /\ calls' = [calls EXCEPT !.triggers = @ + 1]
    /\ hotkeyDown' = 1
    /\ UNCHANGED <<audioIn, vadEnabled, state, audioBuffer, wakeWordChan, hotkeyUp, audioChan,
                   hasSpeech, speechStart, silenceStart, halted, mainPc, tasks, pipeLog>>

TriggerHotkeyUp ==
    /\ calls.triggers < MaxTriggers
    /\ calls' = [calls EXCEPT !.triggers = @ + 1]
    /\ hotkeyUp' = 1
    /\ UNCHANGED <<audioIn, vadEnabled, state, audioBuffer, wakeWordChan, hotkeyDown, audioChan,
                   hasSpeech, speechStart, silenceStart, halted, mainPc, tasks, pipeLog>>

Offer_Unbounded(queue, frame) == Append(queue, frame)

\* A send in a select with a default case, on the frame channel.
Offer(queue, frame) ==
    IF Len(queue) < AudioChanCap THEN Append(queue, frame) ELSE queue

FeedAudio(frame) ==
    /\ calls.frames < MaxFeed
    /\ calls' = [calls EXCEPT !.frames = @ + 1]
    /\ audioChan' = Offer(audioChan, frame)
    /\ UNCHANGED <<audioIn, vadEnabled, state, audioBuffer, wakeWordChan, hotkeyDown, hotkeyUp,
                   hasSpeech, speechStart, silenceStart, halted, mainPc, tasks, pipeLog>>

\* The run goroutine is at its select.
MainReady == mainPc = "select" /\ tasks[0].pc = "off" /\ audioIn = NoFrame

RunReturns ==
    /\ MainReady
    /\ halted # "no"
    /\ mainPc' = "exited"
    /\ UNCHANGED <<audioIn, vadEnabled, state, audioBuffer, wakeWordChan, hotkeyDown, hotkeyUp,
                   audioChan, hasSpeech, speechStart, silenceStart, halted, tasks, calls,
                   pipeLog>>

\* startRecording: what it leaves in the buffer and the VAD fields.
startRecording ==
    /\ audioBuffer' = <<>>
    /\ state' = "recording"
    /\ hasSpeech' = FALSE
    /\ silenceStart' = -1
    /\ speechStart' = -1

SpawnRecorder ==
    LET t == CHOOSE u \in FreeTasks : \A v \in FreeTasks : u <= v
    IN  tasks' = [tasks EXCEPT ![t] = [TaskOff EXCEPT !.pc = "wait"]]

handleWakeWord ==
    /\ MainReady
    /\ wakeWordChan = 1
    /\ FreeTasks # {}
    /\ wakeWordChan' = 0
    /\ startRecording
    /\ SpawnRecorder
    /\ pipeLog' =
         IF state = "idle" /\ \A t \in TaskIds : tasks[t].pc = "off"
         THEN Notified(Notified([solo |-> "active", trace |-> <<>>], state, "listening"),
                       "listening", "recording")
         ELSE NoSession
    /\ UNCHANGED <<audioIn, vadEnabled, hotkeyDown, hotkeyUp, audioChan, halted, mainPc, calls>>

handleHotkeyDown ==
    /\ MainReady
    /\ hotkeyDown = 1
    /\ hotkeyDown' = 0
    /\ startRecording
    /\ pipeLog' = NoSession
    /\ UNCHANGED <<audioIn, vadEnabled, wakeWordChan, hotkeyUp, audioChan, halted, mainPc, tasks,
                   calls>>

ReleaseFinalizes_Always(s) == TRUE

\* handleHotkeyRelease: the state in which the release is acted upon.
ReleaseFinalizes(s) == s = "recording"

handleHotkeyRelease ==
    /\ MainReady
    /\ hotkeyUp = 1
    /\ hotkeyUp' = 0
    /\ IF ~ReleaseFinalizes(state)
       THEN UNCHANGED <<tasks, pipeLog>>
       ELSE /\ tasks' = [tasks EXCEPT ![0] = [TaskOff EXCEPT !.pc = "begin"]]
            /\ pipeLog' = NoSession
    /\ UNCHANGED <<audioIn, vadEnabled, state, audioBuffer, wakeWordChan, hotkeyDown, audioChan,
                   hasSpeech, speechStart, silenceStart, halted, mainPc, calls>>

\* analyzeVAD on the VAD fields f = [hasSpeech, speechStart, silenceStart].
analyzeVAD(f, frame) ==
    IF frame = "loud"
    THEN [hasSpeech |-> TRUE,
          speechStart |-> IF ~f.hasSpeech THEN 0 ELSE f.speechStart,
          silenceStart |-> -1]
    ELSE IF f.hasSpeech /\ f.silenceStart = -1
         THEN [f EXCEPT !.silenceStart = 0]
         ELSE f

KeepsFrame_Always(before, after) == TRUE

\* handleAudio: whether the frame is written to the buffer, from the state
\* read on entry and the state read after a possible auto-start.
KeepsFrame(before, after) ==
    before \in {"listening", "recording"} \/ after \in {"listening", "recording"}

\* handleAudio up to the start of a session: the state is read, and a loud
\* frame met in idle with VAD enabled starts a recording and its recorder.
handleAudio ==
    /\ MainReady
    /\ audioChan # <<>>
    /\ audioChan' = Tail(audioChan)
    /\ audioIn' = [frame |-> Head(audioChan), entry |-> state]
    /\ IF state = "idle" /\ vadEnabled /\ Head(audioChan) = "loud"
       THEN /\ FreeTasks # {}
            /\ startRecording
            /\ SpawnRecorder
            /\ pipeLog' = NoSession
       ELSE UNCHANGED <<state, audioBuffer, hasSpeech, speechStart, silenceStart, tasks,
                        pipeLog>>
    /\ UNCHANGED <<vadEnabled, wakeWordChan, hotkeyDown, hotkeyUp, halted, mainPc, calls>>

\* audioBuffer.Write puts its bytes at place k of the buffer's array.  A
\* slice taken earlier that shares the array sees them if k lies within it;
\* a write past its end may move the buffer to a new array, after which the
\* slice is followed no more.
Written(task, k, frame) ==
    IF ~task.shared
    THEN task
    ELSE IF k <= Len(task.audio)
    THEN [task EXCEPT !.audio[k] = frame]
    ELSE [task EXCEPT !.shared = FALSE]

\* handleAudio from its second reading of the state: the frame is written
\* to the buffer and analyzed, or left out.
handleAudioWrite ==
    /\ mainPc = "select"
    /\ audioIn # NoFrame
    /\ LET keep == KeepsFrame(audioIn.entry, state)
           f0   == [hasSpeech |-> hasSpeech, speechStart |-> speechStart,
                    silenceStart |-> silenceStart]
           f1   == IF keep /\ vadEnabled THEN analyzeVAD(f0, audioIn.frame) ELSE f0
       IN  /\ audioBuffer' = IF keep THEN Append(audioBuffer, audioIn.frame) ELSE audioBuffer
           /\ tasks' = IF keep
                       THEN [t \in TaskIds |->
                                Written(tasks[t], Len(audioBuffer) + 1, audioIn.frame)]
                       ELSE tasks
           /\ hasSpeech' = f1.hasSpeech
           /\ speechStart' = f1.speechStart
           /\ silenceStart' = f1.silenceStart
    /\ audioIn' = NoFrame
    /\ UNCHANGED <<vadEnabled, state, wakeWordChan, hotkeyDown, hotkeyUp, audioChan, halted,
                   mainPc, calls, pipeLog>>

Aged(a, limit) == IF a = -1 \/ a >= limit THEN a ELSE a + 1

Tick ==
    /\ speechStart' = Aged(speechStart, MinSpeechTicks)
    /\ silenceStart' = Aged(silenceStart, SilenceThresholdTicks)
    /\ tasks' = [t \in TaskIds |->
                    IF tasks[t].pc = "wait"
                    THEN [tasks[t] EXCEPT !.timer = Aged(@, MaxRecordTicks)]
                    ELSE IF tasks[t].pc = "check"
                    THEN [tasks[t] EXCEPT !.onset = Aged(@, MinSpeechTicks)]
                    ELSE tasks[t]]
    /\ <<speechStart', silenceStart', tasks'>> # <<speechStart, silenceStart, tasks>>
    /\ UNCHANGED <<audioIn, vadEnabled, state, audioBuffer, wakeWordChan, hotkeyDown, hotkeyUp,
                   audioChan, hasSpeech, halted, mainPc, calls, pipeLog>>

SilenceReached ==
    hasSpeech /\ silenceStart # -1 /\ silenceStart >= SilenceThresholdTicks

Expired_Never(timer) == FALSE

\* timeout.C has fired: maxRecordTime has passed since the task started.
Expired(timer) == timer >= MaxRecordTicks

recordUntilSilence(t) ==
    /\ tasks[t].pc = "wait"
    /\ \/ halted # "no"
       \/ Expired(tasks[t].timer)
       \/ SilenceReached
    /\ tasks' = [tasks EXCEPT ![t].pc = "begin"]
    /\ UNCHANGED <<audioIn, vadEnabled, state, audioBuffer, wakeWordChan, hotkeyDown, hotkeyUp,
                   audioChan, hasSpeech, speechStart, silenceStart, halted, mainPc, calls,
                   pipeLog>>

ProcessBegin(t) ==
    /\ tasks[t].pc = "begin"
    /\ state' = "processing"
    /\ pipeLog' = Notified(pipeLog, state, "processing")
    /\ tasks' = [tasks EXCEPT ![t].pc = "snapshot"]
    /\ UNCHANGED <<audioIn, vadEnabled, audioBuffer, wakeWordChan, hotkeyDown, hotkeyUp, audioChan,
                   hasSpeech, speechStart, silenceStart, halted, mainPc, calls>>

SpeechTooShort == hasSpeech /\ speechStart # -1 /\ speechStart < MinSpeechTicks

\* The buffer is taken and reset under bufferMu.  onset keeps, for the
\* recording taken, the age of its speech onset (-1: none) up to the check.
\* Bytes() returns a slice of the buffer's own array and Reset() only sets
\* the length to zero, so the slice taken shares the array the next writes
\* go to.
ProcessSnapshot(t) ==
    /\ tasks[t].pc = "snapshot"
    /\ audioBuffer' = <<>>
    /\ tasks' = IF audioBuffer = <<>>
                THEN [tasks EXCEPT ![t].pc = "end"]
                ELSE [tasks EXCEPT ![t].pc = "check",
                                   ![t].onset = IF hasSpeech THEN speechStart ELSE -1,
                                   ![t].audio = audioBuffer,
                                   ![t].taken = audioBuffer,
                                   ![t].shared = TRUE]
    /\ UNCHANGED <<audioIn, vadEnabled, state, wakeWordChan, hotkeyDown, hotkeyUp, audioChan,
                   hasSpeech, speechStart, silenceStart, halted, mainPc, calls, pipeLog>>

\* The minimum speech check, made after bufferMu is released: it reads
\* hasSpeech and speechStart as they are now.
ProcessCheckSpeech(t) ==
    /\ tasks[t].pc = "check"
    /\ tasks' = IF SpeechTooShort
                THEN [tasks EXCEPT ![t].pc = "end", ![t].audio = <<>>, ![t].taken = <<>>,
                                   ![t].shared = FALSE]
                ELSE [tasks EXCEPT ![t].pc = "stt"]
    /\ UNCHANGED <<audioIn, vadEnabled, state, audioBuffer, wakeWordChan, hotkeyDown, hotkeyUp,
                   audioChan, hasSpeech, speechStart, silenceStart, halted, mainPc, calls,
                   pipeLog>>

\* if p.onError != nil { p.onError(...) }
Report(hasCallback) == IF hasCallback THEN "called" ELSE "absent"

\* Transcribe returns an error, an empty text or a text.
ProcessTranscribe(t, outcome, hasCallback) ==
    /\ tasks[t].pc = "stt"
    /\ tasks' = IF outcome = "err"
                THEN [tasks EXCEPT ![t].pc = "end",
                                   ![t].turn.failed = "stt",
                                   ![t].turn.reported = Report(hasCallback),
                                   ![t].audio = <<>>, ![t].taken = <<>>, ![t].shared = FALSE]
                ELSE [tasks EXCEPT ![t].pc = IF outcome = "text" THEN "brain" ELSE "end",
                                   ![t].audio = <<>>, ![t].taken = <<>>, ![t].shared = FALSE]
    /\ UNCHANGED <<audioIn, vadEnabled, state, audioBuffer, wakeWordChan, hotkeyDown, hotkeyUp,
                   audioChan, hasSpeech, speechStart, silenceStart, halted, mainPc, calls,
                   pipeLog>>

\* The pipeline's own call of ProcessCommand: an error, an empty response
\* or a response.
ProcessBrain(t, outcome, hasCallback) ==
    /\ tasks[t].pc = "brain"
    /\ tasks' = IF outcome = "err"
                THEN [tasks EXCEPT ![t].pc = "end",
                                   ![t].turn.runs = @ + 1,
                                   ![t].turn.failed = "command",
                                   ![t].turn.reported = Report(hasCallback)]
                ELSE [tasks EXCEPT ![t].pc = "speak", ![t].turn.runs = @ + 1]
    /\ UNCHANGED <<audioIn, vadEnabled, state, audioBuffer, wakeWordChan, hotkeyDown, hotkeyUp,
                   audioChan, hasSpeech, speechStart, silenceStart, halted, mainPc, calls,
                   pipeLog>>

ProcessAndSpeak_OnlySpeaks(turn, outcome, tts) ==
    [turn EXCEPT !.spoke = tts \in {"ok", "fails"}]

\* Brain.ProcessAndSpeak: ProcessCommand is run on the text again; an error
\* is replaced by the apology, an empty response ends the call, and the
\* response is spoken when a TTS provider is set and available.  tts is
\* "nil", "down" (not available), "ok" or "fails" (Speak returns an error).
ProcessAndSpeak(turn, outcome, tts) ==
    [turn EXCEPT !.runs = @ + 1,
                 !.failed = IF outcome = "err" THEN "respoken" ELSE @,
                 !.spoke = outcome # "empty" /\ tts \in {"ok", "fails"}]

TtsStates == {"nil", "down", "ok", "fails"}

ProcessSpeak(t, outcome, tts) ==
    /\ tasks[t].pc = "speak"
    /\ tasks' = [tasks EXCEPT ![t].pc = "end",
                              ![t].turn = ProcessAndSpeak(@, outcome, tts)]
    /\ UNCHANGED <<audioIn, vadEnabled, state, audioBuffer, wakeWordChan, hotkeyDown, hotkeyUp,
                   audioChan, hasSpeech, speechStart, silenceStart, halted, mainPc, calls,
                   pipeLog>>

ProcessEnd(t) ==
    /\ tasks[t].pc = "end"
    /\ state' = DeferredState
    /\ pipeLog' = LET log == Notified(pipeLog, state, DeferredState)
                  IN  IF log.solo = "active" THEN [log EXCEPT !.solo = "done"] ELSE log
    /\ tasks' = [tasks EXCEPT ![t] = TaskOff]
    /\ UNCHANGED <<audioIn, vadEnabled, audioBuffer, wakeWordChan, hotkeyDown, hotkeyUp, audioChan,
                   hasSpeech, speechStart, silenceStart, halted, mainPc, calls>>

PipelineOnly == UNCHANGED <<calcVars, brainVars, twitchVars, musicVars, obsVars, autoVars, piperVars, cfgVars, reqVars>>

PipelineNext ==
    \/ Start /\ PipelineOnly
    \/ PipelineStop /\ PipelineOnly
    \/ CancelContext /\ PipelineOnly
    \/ TriggerWakeWord /\ PipelineOnly
    \/ TriggerHotkeyDown /\ PipelineOnly
    \/ TriggerHotkeyUp /\ PipelineOnly
    \/ \E frame \in Frames : FeedAudio(frame) /\ PipelineOnly
    \/ RunReturns /\ PipelineOnly
    \/ handleWakeWord /\ PipelineOnly
    \/ handleHotkeyDown /\ PipelineOnly
    \/ handleHotkeyRelease /\ PipelineOnly
    \/ handleAudio /\ PipelineOnly
    \/ handleAudioWrite /\ PipelineOnly
    \/ Tick /\ PipelineOnly
    \/ \E t \in TaskIds : recordUntilSilence(t) /\ PipelineOnly
    \/ \E t \in TaskIds : ProcessBegin(t) /\ PipelineOnly
    \/ \E t \in TaskIds : ProcessSnapshot(t) /\ PipelineOnly
    \/ \E t \in TaskIds : ProcessCheckSpeech(t) /\ PipelineOnly
    \/ \E t \in TaskIds, outcome \in {"err", "empty", "text"}, hasCallback \in BOOLEAN :
            ProcessTranscribe(t, outcome, hasCallback) /\ PipelineOnly
    \/ \E t \in TaskIds, outcome \in {"err", "empty", "resp"}, hasCallback \in BOOLEAN :
            ProcessBrain(t, outcome, hasCallback) /\ PipelineOnly
    \/ \E t \in TaskIds, outcome \in {"err", "empty", "resp"}, tts \in TtsStates :
            ProcessSpeak(t, outcome, tts) /\ PipelineOnly
    \/ \E t \in TaskIds : ProcessEnd(t) /\ PipelineOnly

BacklogInitQueue == [i \in 1..(AudioChanCap - 1) |-> "quiet"]

\* The pipeline as constructed, with VAD disabled, after FeedAudio has been
\* called AudioChanCap - 1 times and before Start.
BacklogInit ==
    /\ vadEnabled = FALSE
    /\ state = "idle"
    /\ audioBuffer = <<>>
    /\ wakeWordChan = 0
    /\ hotkeyDown = 0
    /\ hotkeyUp = 0
    /\ audioChan = BacklogInitQueue
    /\ hasSpeech = FALSE
    /\ speechStart = -1
    /\ silenceStart = -1
    /\ halted = "no"
    /\ mainPc = "new"
    /\ tasks = [t \in TaskIds |-> TaskOff]
    /\ calls = [frames |-> 0, triggers |-> 0]
    /\ audioIn = NoFrame
    /\ pipeLog = NoSession

\* The callers of the enqueue operations, and the run loop taking frames
\* and hotkey events; no wake word is handled, so no recorder runs.
BacklogNext ==
    \/ Start /\ PipelineOnly
    \/ TriggerWakeWord /\ PipelineOnly
    \/ TriggerHotkeyDown /\ PipelineOnly
    \/ TriggerHotkeyUp /\ PipelineOnly
    \/ \E frame \in Frames : FeedAudio(frame) /\ PipelineOnly
    \/ handleHotkeyDown /\ PipelineOnly
    \/ handleHotkeyRelease /\ PipelineOnly
    \/ handleAudio /\ PipelineOnly
    \/ handleAudioWrite /\ PipelineOnly

(***************************************************************************)
(* The OBS executor (package obs).                                         *)
(*                                                                         *)
(* Connect holds e.mu from its first line to its return, so it is one      *)
(* action whose outcome is decided by what the dial, the two reads and the *)
(* write answer.  A request goes through Registry.Execute or is a direct   *)
(* call of Execute, and is cut where other goroutines can run:             *)
(*   "execute"  inside Execute, before the enabled and connected checks    *)
(*   "check"    inside sendRequest, before the connected check             *)
(*   "write"    registered, before e.conn.WriteJSON                        *)
(*   "wait"     written, in the select on the reply channel                *)
(* One request is in flight at a time.  A reader goroutine is at "load"    *)
(* before it evaluates e.conn and at "read" inside ReadJSON.  A socket is  *)
(* a number, 0 is the nil handle; obsSockets[i] tells whether socket i is  *)
(* open.  A method call on the nil handle is a nil dereference: the        *)
(* program stops.                                                          *)
(***************************************************************************)
MaxDials == 2

MaxRequests == 2

OpHello == 0

OpIdentified == 2

OpEvent == 5

OpRequestResp == 7

\* A frame read during the handshake: a read error, or an opcode and whether
\* the payload parses.
Frame(op) == [err |-> FALSE, op |-> op, parses |-> TRUE]

ReadError == [err |-> TRUE, op |-> 0, parses |-> TRUE]

GoodHandshake == [dial |-> TRUE, hello |-> Frame(OpHello), write |-> TRUE,
                  ident |-> Frame(OpIdentified)]

\* What the server and the network answer during one Connect: only the
\* answers Connect gets to read are varied.
ConnectAnswers ==
    {GoodHandshake, [GoodHandshake EXCEPT !.dial = FALSE], [GoodHandshake EXCEPT !.write = FALSE]}
    \cup {[GoodHandshake EXCEPT !.hello = f] :
            f \in {ReadError, Frame(OpIdentified), Frame(OpEvent),
                   [Frame(OpHello) EXCEPT !.parses = FALSE]}}
    \cup {[GoodHandshake EXCEPT !.ident = f] :
            f \in {ReadError, Frame(OpHello), Frame(OpRequestResp)}}

Connect_TrustsSecondFrame(connected, conn, sockets, ans) ==
    IF connected
    THEN [err |-> NilErr, conn |-> conn, sockets |-> sockets, connected |-> TRUE, reader |-> 0,
          dialed |-> FALSE]
    ELSE IF ~ans.dial
    THEN [err |-> E(<<"failed to connect to OBS">>), conn |-> conn, sockets |-> sockets,
          connected |-> FALSE, reader |-> 0, dialed |-> FALSE]
    ELSE LET id == Len(sockets) + 1
             fail(msg) == [err |-> E(msg), conn |-> id, sockets |-> Append(sockets, "closed"),
                           connected |-> FALSE, reader |-> 0, dialed |-> TRUE]
         IN  IF ans.hello.err THEN fail(<<"failed to read hello">>)
             ELSE IF ans.hello.op # OpHello THEN fail(<<"expected Hello, got op ", ans.hello.op>>)
             ELSE IF ~ans.hello.parses THEN fail(<<"failed to parse hello">>)
             ELSE IF ~ans.write THEN fail(<<"failed to send identify">>)
             ELSE IF ans.ident.err THEN fail(<<"failed to read identified">>)
             ELSE [err |-> NilErr, conn |-> id, sockets |-> Append(sockets, "open"),
                   connected |-> TRUE, reader |-> id, dialed |-> TRUE]

\* Executor.Connect: the error returned, e.conn, the sockets, e.connected and
\* the reader started (0: none).
Connect(connected, conn, sockets, ans) ==
    IF connected
    THEN [err |-> NilErr, conn |-> conn, sockets |-> sockets, connected |-> TRUE, reader |-> 0,
          dialed |-> FALSE]
    ELSE IF ~ans.dial
    THEN [err |-> E(<<"failed to connect to OBS">>), conn |-> conn, sockets |-> sockets,
          connected |-> FALSE, reader |-> 0, dialed |-> FALSE]
    ELSE LET id == Len(sockets) + 1
             fail(msg) == [err |-> E(msg), conn |-> id, sockets |-> Append(sockets, "closed"),
                           connected |-> FALSE, reader |-> 0, dialed |-> TRUE]
         IN  IF ans.hello.err THEN fail(<<"failed to read hello">>)
             ELSE IF ans.hello.op # OpHello THEN fail(<<"expected Hello, got op ", ans.hello.op>>)
             ELSE IF ~ans.hello.parses THEN fail(<<"failed to parse hello">>)
             ELSE IF ~ans.write THEN fail(<<"failed to send identify">>)
             ELSE IF ans.ident.err THEN fail(<<"failed to read identified">>)
             ELSE IF ans.ident.op # OpIdentified
             THEN fail(<<"authentication failed, got op ", ans.ident.op>>)
             ELSE [err |-> NilErr, conn |-> id, sockets |-> Append(sockets, "open"),
                   connected |-> TRUE, reader |-> id, dialed |-> TRUE]

RatLess(a, b) == a.n * b.d < b.n * a.d

VolumeDb_Linear(volume) ==
    LET v == IF RatLess(volume, RatInt(0)) THEN RatInt(0)
             ELSE IF RatLess(RatInt(1), volume) THEN RatInt(1) ELSE volume
    IN  IF ~RatLess(RatInt(0), v)
        THEN RatInt(-100)
        ELSE RatMul(RatInt(20), RatSub(v, RatInt(1)))

\* setVolume: the clamp and the decibel mapping.
VolumeDb(volume) ==
    LET v == IF RatLess(volume, RatInt(0)) THEN RatInt(0)
             ELSE IF RatLess(RatInt(1), volume) THEN RatInt(1) ELSE volume
    IN  IF ~RatLess(RatInt(0), v)
        THEN RatInt(-100)
        ELSE RatMul(RatMul(RatInt(20), RatSub(v, RatInt(1))), RatInt(2))

Volumes == {Rat(-1, 2), RatInt(0), Rat(1, 4), Rat(1, 2), RatInt(1), Rat(3, 2)}

\* The actions dispatched: obs.volume with a source and a volume, obs.mute.
ObsCalls ==
    {[action |-> "obs.volume", source |-> "Mic", volume |-> v] : v \in Volumes}
    \cup {[action |-> "obs.volume", source |-> "", volume |-> RatInt(1)],
          [action |-> "obs.mute", source |-> "Mic", volume |-> RatInt(0)]}

ReaderOff == [pc |-> "off", conn |-> 0]

ReqOff == [pc |-> "off", via |-> "none", call |-> [action |-> "", source |-> "", volume |-> RatInt(0)],
           id |-> 0, sock |-> 0, result |-> ""]

NoConnect == [tried |-> FALSE, ans |-> GoodHandshake, ok |-> FALSE, closed |-> FALSE,
              connected |-> FALSE, reader |-> FALSE]

NoObsLog == [connect |-> NoConnect, lazy |-> "none", nilUse |-> FALSE, late |-> "none",
             volume |-> [set |-> FALSE, in |-> RatInt(0), db |-> RatInt(0)]]

ObsInit ==
    /\ obsEnabled \in BOOLEAN
    /\ obsConnected = FALSE
    /\ obsConn = 0
    /\ obsSockets = <<>>
    /\ obsReaders = [k \in 1..MaxDials |-> ReaderOff]
    /\ obsRequestID = 0
    /\ obsResponses = <<>>
    /\ obsReq = ReqOff
    /\ obsLog = NoObsLog

ObsIdle ==
    /\ obsEnabled = FALSE
    /\ obsConnected = FALSE
    /\ obsConn = 0
    /\ obsSockets = <<>>
    /\ obsReaders = <<>>
    /\ obsRequestID = 0
    /\ obsResponses = <<>>
    /\ obsReq = ReqOff
    /\ obsLog = NoObsLog

ObsRunning == ~obsLog.nilUse

\* What a Connect leaves in the executor, and the record of the attempt.
Connected(c, ans) ==
    /\ obsConn' = c.conn
    /\ obsSockets' = c.sockets
    /\ obsConnected' = c.connected
    /\ obsReaders' = IF c.reader = 0
                     THEN obsReaders
                     ELSE [obsReaders EXCEPT ![c.reader] = [pc |-> "load", conn |-> 0]]

ConnectRecord(c, ans) ==
    [tried |-> TRUE, ans |-> ans, ok |-> c.err.nil,
     closed |-> c.dialed => c.sockets[Len(c.sockets)] = "closed",
     connected |-> c.connected, reader |-> c.reader # 0]

CanDial(ans) == (~obsConnected /\ ans.dial) => Len(obsSockets) < MaxDials

\* A direct call of Connect.
ObsConnect(ans) ==
    /\ ObsRunning
    /\ ~obsConnected
    /\ CanDial(ans)
    /\ LET c == Connect(obsConnected, obsConn, obsSockets, ans)
       IN  /\ Connected(c, ans)
           /\ obsLog' = [obsLog EXCEPT !.connect = ConnectRecord(c, ans)]
    /\ UNCHANGED <<obsEnabled, obsRequestID, obsResponses, obsReq>>

IsAvailable == obsEnabled /\ obsConnected

\* Registry.Execute with an obs action: the executor is found, and Execute
\* is called only if IsAvailable.
ObsDispatch(call) ==
    /\ ObsRunning
    /\ obsReq.pc = "off"
    /\ obsRequestID < MaxRequests
    /\ IF IsAvailable
       THEN /\ obsReq' = [ReqOff EXCEPT !.pc = "execute", !.via = "registry", !.call = call]
            /\ obsLog' = [obsLog EXCEPT !.lazy = "none", !.late = "none"]
       ELSE /\ obsReq' = [ReqOff EXCEPT !.via = "registry", !.call = call,
                                        !.result = "executor obs is not available"]
            /\ obsLog' = [obsLog EXCEPT !.lazy = IF obsEnabled THEN "refused" ELSE "none",
                                        !.late = "none"]
    /\ UNCHANGED <<obsEnabled, obsConnected, obsConn, obsSockets, obsReaders, obsRequestID,
                   obsResponses>>

\* A direct call of Execute.
ObsExecuteCall(call) ==
    /\ ObsRunning
    /\ obsReq.pc = "off"
    /\ obsRequestID < MaxRequests
    /\ obsReq' = [ReqOff EXCEPT !.pc = "execute", !.via = "direct", !.call = call]
    /\ obsLog' = [obsLog EXCEPT !.lazy = "none", !.late = "none"]
    /\ UNCHANGED <<obsEnabled, obsConnected, obsConn, obsSockets, obsReaders, obsRequestID,
                   obsResponses>>

Returned(text) == [obsReq EXCEPT !.pc = "off", !.result = text]

\* Executor.Execute up to the call of sendRequest.
ObsExecute(ans) ==
    /\ ObsRunning
    /\ obsReq.pc = "execute"
    /\ IF ~obsEnabled
       THEN /\ obsReq' = Returned("OBS is not enabled")
            /\ UNCHANGED <<obsConnected, obsConn, obsSockets, obsReaders, obsLog>>
       ELSE LET c == Connect(obsConnected, obsConn, obsSockets, ans)
                lazy == IF obsReq.via = "registry" /\ ~obsConnected THEN "tried" ELSE obsLog.lazy
                log == IF obsConnected
                       THEN obsLog
                       ELSE [obsLog EXCEPT !.connect = ConnectRecord(c, ans), !.lazy = lazy]
            IN  /\ obsConnected \/ CanDial(ans)
                /\ obsConnected => ans = GoodHandshake
                /\ Connected(c, ans)
                /\ IF ~c.err.nil
                   THEN obsReq' = Returned("connect failed") /\ obsLog' = log
                   ELSE IF obsReq.call.source = ""
                   THEN obsReq' = Returned("source name is required") /\ obsLog' = log
                   ELSE /\ obsReq' = [obsReq EXCEPT !.pc = "check"]
                        /\ obsLog' =
                             IF obsReq.call.action = "obs.volume"
                             THEN [log EXCEPT !.volume = [set |-> TRUE, in |-> obsReq.call.volume,
                                                          db |-> VolumeDb(obsReq.call.volume)]]
                             ELSE log
    /\ UNCHANGED <<obsEnabled, obsRequestID, obsResponses>>

\* sendRequest: the connected check and the registration of the reply channel.
ObsSendCheck ==
    /\ ObsRunning
    /\ obsReq.pc = "check"
    /\ IF ~obsConnected
       THEN /\ obsReq' = Returned("not connected to OBS")
            /\ UNCHANGED <<obsRequestID, obsResponses>>
       ELSE /\ obsRequestID' = obsRequestID + 1
            /\ obsResponses' = (obsRequestID + 1) :> 0
            /\ obsReq' = [obsReq EXCEPT !.pc = "write", !.id = obsRequestID + 1]
    /\ obsLog' = [obsLog EXCEPT !.late = IF obsConn # 0 THEN "none"
                                         ELSE IF obsConnected THEN "sent" ELSE "refused"]
    /\ UNCHANGED <<obsEnabled, obsConnected, obsConn, obsSockets, obsReaders>>

\* sendRequest: e.conn.WriteJSON under e.mu, and the deferred delete when it fails.
ObsSendWrite(ok) ==
    /\ ObsRunning
    /\ obsReq.pc = "write"
    /\ IF obsConn = 0
       THEN /\ obsLog' = [obsLog EXCEPT !.nilUse = TRUE]
            /\ UNCHANGED <<obsReq, obsResponses>>
       ELSE IF obsSockets[obsConn] = "closed" \/ ~ok
       THEN /\ obsReq' = Returned("failed to send request")
            /\ obsResponses' = <<>>
            /\ UNCHANGED obsLog
       ELSE /\ obsReq' = [obsReq EXCEPT !.pc = "wait", !.sock = obsConn]
            /\ UNCHANGED <<obsResponses, obsLog>>
    /\ UNCHANGED <<obsEnabled, obsConnected, obsConn, obsSockets, obsReaders, obsRequestID>>

\* sendRequest: the select on the reply channel, the context and the timer.
ObsSendWait(result) ==
    /\ ObsRunning
    /\ obsReq.pc = "wait"
    /\ \/ /\ obsResponses[obsReq.id] > 0
          /\ result \in {"done", "request failed"}
       \/ result = "request timeout"
    /\ obsReq' = Returned(result)
    /\ obsResponses' = <<>>
    /\ UNCHANGED <<obsEnabled, obsConnected, obsConn, obsSockets, obsReaders, obsRequestID,
                   obsLog>>

\* readMessages: e.conn is evaluated for the call of ReadJSON.
ReaderLoad(k) ==
    /\ ObsRunning
    /\ obsReaders[k].pc = "load"
    /\ IF obsConn = 0
       THEN obsLog' = [obsLog EXCEPT !.nilUse = TRUE] /\ UNCHANGED obsReaders
       ELSE /\ obsReaders' = [obsReaders EXCEPT ![k] = [pc |-> "read", conn |-> obsConn]]
            /\ UNCHANGED obsLog
    /\ UNCHANGED <<obsEnabled, obsConnected, obsConn, obsSockets, obsRequestID, obsResponses,
                   obsReq>>

\* readMessages: ReadJSON returns an error, an event or the reply to the
\* request written on this socket.
ReaderRead(k, frame) ==
    /\ ObsRunning
    /\ obsReaders[k].pc = "read"
    /\ IF obsSockets[obsReaders[k].conn] = "closed" \/ frame = "error"
       THEN /\ obsConnected' = FALSE
            /\ obsReaders' = [obsReaders EXCEPT ![k] = ReaderOff]
            /\ UNCHANGED obsResponses
       ELSE /\ frame = "reply" =>
                    /\ obsReq.pc = "wait"
                    /\ obsReq.sock = obsReaders[k].conn
                    /\ obsResponses[obsReq.id] = 0
            /\ obsReaders' = [obsReaders EXCEPT ![k].pc = "load"]
            /\ obsResponses' = IF frame = "reply" /\ obsReq.id \in DOMAIN obsResponses
                               THEN [obsResponses EXCEPT ![obsReq.id] = 1]
                               ELSE obsResponses
            /\ UNCHANGED obsConnected
    /\ UNCHANGED <<obsEnabled, obsConn, obsSockets, obsRequestID, obsReq, obsLog>>

\* Executor.Close
ObsClose ==
    /\ ObsRunning
    /\ obsSockets' = IF obsConn # 0 THEN [obsSockets EXCEPT ![obsConn] = "closed"] ELSE obsSockets
    /\ obsConn' = 0
    /\ obsConnected' = FALSE
    /\ UNCHANGED <<obsEnabled, obsReaders, obsRequestID, obsResponses, obsReq, obsLog>>

ObsOnly == UNCHANGED <<calcVars, brainVars, twitchVars, musicVars, pipeVars, autoVars, piperVars, cfgVars, reqVars>>

ObsNext ==
    \/ \E ans \in ConnectAnswers : ObsConnect(ans) /\ ObsOnly
    \/ \E call \in ObsCalls : ObsDispatch(call) /\ ObsOnly
    \/ \E call \in ObsCalls : ObsExecuteCall(call) /\ ObsOnly
    \/ \E ans \in ConnectAnswers : ObsExecute(ans) /\ ObsOnly
    \/ ObsSendCheck /\ ObsOnly
    \/ \E ok \in BOOLEAN : ObsSendWrite(ok) /\ ObsOnly
    \/ \E result \in {"done", "request failed", "request timeout"} : ObsSendWait(result) /\ ObsOnly
    \/ \E k \in 1..MaxDials : ReaderLoad(k) /\ ObsOnly
    \/ \E k \in 1..MaxDials, frame \in {"error", "event", "reply"} : ReaderRead(k, frame) /\ ObsOnly
    \/ ObsClose /\ ObsOnly

(***************************************************************************)
(* The composite providers (llm.autoProvider, tts.autoProvider).           *)
(*                                                                         *)
(* A backend is named by its Name().  What IsAvailable returns for each    *)
(* backend is an input of every operation: up is the set of backends that  *)
(* answer true when probed.                                                *)
(***************************************************************************)
LLMOrder == <<"ollama", "openai">>

TTSOrder == <<"windows-tts", "piper", "openai-tts">>

\* Constructors that return an error for some configuration.
MayFail == {"openai", "openai-tts"}

SeqRange(q) == {q[i] : i \in 1..Len(q)}

RECURSIVE Constructed(_, _)
\* NewAutoProvider: the backends whose constructor succeeded, in order.
Constructed(order, built) ==
    IF order = <<>>
    THEN <<>>
    ELSE IF Head(order) \in built
         THEN <<Head(order)>> \o Constructed(Tail(order), built)
         ELSE Constructed(Tail(order), built)

RECURSIVE FirstAvailable(_, _)
\* for _, p := range a.providers { if p.IsAvailable(ctx) { return p, nil } }
FirstAvailable(providers, up) ==
    IF providers = <<>>
    THEN "none"
    ELSE IF Head(providers) \in up
         THEN Head(providers)
         ELSE FirstAvailable(Tail(providers), up)

selectProvider_NoFallback(providers, up) ==
    LET p == FirstAvailable(providers, up)
    IN  IF p # "none"
        THEN [provider |-> p, err |-> NilErr]
        ELSE [provider |-> "none", err |-> E(<<"no LLM provider available">>)]

\* llm autoProvider.selectProvider
selectProvider(providers, up) ==
    LET p == FirstAvailable(providers, up)
    IN  IF p # "none"
        THEN [provider |-> p, err |-> NilErr]
        ELSE IF Len(providers) = 0
             THEN [provider |-> "none", err |-> E(<<"no LLM providers configured">>)]
             ELSE [provider |-> providers[1], err |-> NilErr]

\* tts autoProvider.selectAvailable
selectAvailable(providers, up) ==
    LET p == FirstAvailable(providers, up)
    IN  IF p # "none"
        THEN [provider |-> p, err |-> NilErr]
        ELSE [provider |-> "none", err |-> E(<<"no TTS provider available">>)]

NoAutoCall == [op |-> "none", providers |-> <<>>, up |-> {}, provider |-> "none",
               err |-> NilErr]

AutoInit ==
    /\ llmBackends = <<>>
    /\ ttsBackends = <<>>
    /\ autoCall = NoAutoCall

AutoIdle == AutoInit

\* llm.NewAutoProvider
NewAutoLLM(built) ==
    /\ llmBackends = <<>>
    /\ llmBackends' = Constructed(LLMOrder, built)
    /\ UNCHANGED <<ttsBackends, autoCall>>

\* tts.NewAutoProvider
NewAutoTTS(built) ==
    /\ ttsBackends = <<>>
    /\ ttsBackends' = Constructed(TTSOrder, built)
    /\ UNCHANGED <<llmBackends, autoCall>>

\* llm autoProvider.Complete and CompleteRaw: the call goes to the provider
\* selected, unless the selection returns an error.
LLMDelegate(op, up) ==
    /\ llmBackends # <<>>
    /\ autoCall' = [op |-> op, providers |-> llmBackends, up |-> up]
                        @@ selectProvider(llmBackends, up)
    /\ UNCHANGED <<llmBackends, ttsBackends>>

\* tts autoProvider.Speak and Synthesize
TTSDelegate(op, up) ==
    /\ ttsBackends # <<>>
    /\ autoCall' = [op |-> op, providers |-> ttsBackends, up |-> up]
                        @@ selectAvailable(ttsBackends, up)
    /\ UNCHANGED <<llmBackends, ttsBackends>>

AutoOnly == UNCHANGED <<calcVars, brainVars, twitchVars, musicVars, pipeVars, obsVars, piperVars, cfgVars, reqVars>>

AutoNext ==
    \/ \E built \in SUBSET SeqRange(LLMOrder) :
            /\ SeqRange(LLMOrder) \ MayFail \subseteq built
            /\ NewAutoLLM(built) /\ AutoOnly
    \/ \E built \in SUBSET SeqRange(TTSOrder) :
            /\ SeqRange(TTSOrder) \ MayFail \subseteq built
            /\ NewAutoTTS(built) /\ AutoOnly
    \/ \E op \in {"Complete", "CompleteRaw"}, up \in SUBSET SeqRange(LLMOrder) :
            LLMDelegate(op, up) /\ AutoOnly
    \/ \E op \in {"Speak", "Synthesize"}, up \in SUBSET SeqRange(TTSOrder) :
            TTSDelegate(op, up) /\ AutoOnly

(***************************************************************************)
(* The local speech-synthesis adapter (tts.PiperProvider).                 *)
(*                                                                         *)
(* Each Speak call is a process; a step is what it does between two        *)
(* acquisitions of p.mu, or one blocking call.                             *)
(***************************************************************************)
MaxSpeaks == 2

SpeakIds == 1..MaxSpeaks

PiperInit ==
    /\ piperIsPlaying = FALSE
    /\ piperCurrentCmd = 0
    /\ piperPc = [c \in SpeakIds |-> "off"]
    /\ piperProcs = {}

PiperIdle ==
    /\ piperIsPlaying = FALSE
    /\ piperCurrentCmd = 0
    /\ piperPc = <<>>
    /\ piperProcs = {}

\* Stop: Process.Kill on the command held in currentCmd, when it has a
\* process.
Killed(procs, cmd) == procs \ {cmd}

\* Speak, first critical section: a call in flight is to be stopped first.
SpeakEnter(c) ==
    /\ piperPc[c] = "off"
    /\ IF piperIsPlaying
       THEN /\ piperPc' = [piperPc EXCEPT ![c] = "stop"]
            /\ UNCHANGED piperIsPlaying
       ELSE /\ piperPc' = [piperPc EXCEPT ![c] = "synth"]
            /\ piperIsPlaying' = TRUE
    /\ UNCHANGED <<piperCurrentCmd, piperProcs>>

\* Speak calling p.Stop() with the lock released.
SpeakStops(c) ==
    /\ piperPc[c] = "stop"
    /\ piperProcs' = Killed(piperProcs, piperCurrentCmd)
    /\ piperIsPlaying' = FALSE
    /\ piperPc' = [piperPc EXCEPT ![c] = "relock"]
    /\ UNCHANGED piperCurrentCmd

\* Speak taking the lock again and setting isPlaying.
SpeakClaims(c) ==
    /\ piperPc[c] = "relock"
    /\ piperIsPlaying' = TRUE
    /\ piperPc' = [piperPc EXCEPT ![c] = "synth"]
    /\ UNCHANGED <<piperCurrentCmd, piperProcs>>

\* Synthesize returns the audio or an error.
SpeakSynthesize(c, ok) ==
    /\ piperPc[c] = "synth"
    /\ piperPc' = [piperPc EXCEPT ![c] = IF ok THEN "play" ELSE "defer"]
    /\ UNCHANGED <<piperIsPlaying, piperCurrentCmd, piperProcs>>

\* playAudio up to p.currentCmd = cmd; without a player it returns an error.
PlaySetsCmd(c, found) ==
    /\ piperPc[c] = "play"
    /\ IF found
       THEN /\ piperCurrentCmd' = c
            /\ piperPc' = [piperPc EXCEPT ![c] = "run"]
       ELSE /\ piperPc' = [piperPc EXCEPT ![c] = "defer"]
            /\ UNCHANGED piperCurrentCmd
    /\ UNCHANGED <<piperIsPlaying, piperProcs>>

\* cmd.Run starts the player process, or fails to.
PlayStarts(c, ok) ==
    /\ piperPc[c] = "run"
    /\ IF ok
       THEN /\ piperProcs' = piperProcs \cup {c}
            /\ piperPc' = [piperPc EXCEPT ![c] = "running"]
       ELSE /\ piperPc' = [piperPc EXCEPT ![c] = "defer"]
            /\ UNCHANGED piperProcs
    /\ UNCHANGED <<piperIsPlaying, piperCurrentCmd>>

\* cmd.Run returns: the player has ended or has been killed.
PlayEnds(c) ==
    /\ piperPc[c] = "running"
    /\ piperProcs' = piperProcs \ {c}
    /\ piperPc' = [piperPc EXCEPT ![c] = "defer"]
    /\ UNCHANGED <<piperIsPlaying, piperCurrentCmd>>

\* The deferred function of Speak.
SpeakDefer(c) ==
    /\ piperPc[c] = "defer"
    /\ c \notin piperProcs
    /\ piperIsPlaying' = FALSE
    /\ piperCurrentCmd' = 0
    /\ piperPc' = [piperPc EXCEPT ![c] = "off"]
    /\ UNCHANGED piperProcs

PiperOnly ==
    UNCHANGED <<calcVars, brainVars, twitchVars, musicVars, pipeVars, obsVars, autoVars, cfgVars, reqVars>>

PiperNext ==
    \/ \E c \in SpeakIds : SpeakEnter(c) /\ PiperOnly
    \/ \E c \in SpeakIds : SpeakStops(c) /\ PiperOnly
    \/ \E c \in SpeakIds : SpeakClaims(c) /\ PiperOnly
    \/ \E c \in SpeakIds, ok \in BOOLEAN : SpeakSynthesize(c, ok) /\ PiperOnly
    \/ \E c \in SpeakIds, found \in BOOLEAN : PlaySetsCmd(c, found) /\ PiperOnly
    \/ \E c \in SpeakIds, ok \in BOOLEAN : PlayStarts(c, ok) /\ PiperOnly
    \/ \E c \in SpeakIds : PlayEnds(c) /\ PiperOnly
    \/ \E c \in SpeakIds : SpeakDefer(c) /\ PiperOnly

(***************************************************************************)
(* The configuration (package config).                                     *)
(*                                                                         *)
(* A Config is a function from its fields, named by their path in the      *)
(* struct, to their values; float64 values are exact rationals.            *)
(***************************************************************************)
MaxFileKeys == 2

\* DefaultConfig
DefaultConfig ==
       "General.Language" :> "es"
    @@ "General.LogLevel" :> "info"
    @@ "General.DataDir" :> "./data"
    @@ "Audio.Device" :> "default"
    @@ "Audio.SampleRate" :> 16000
    @@ "Audio.Channels" :> 1
    @@ "Audio.ChunkSize" :> 1024
    @@ "Audio.VAD.Enabled" :> TRUE
    @@ "Audio.VAD.Sensitivity" :> Rat(1, 2)
    @@ "Audio.VAD.SilenceThresholdMs" :> 1500
    @@ "Audio.VAD.MinSpeechMs" :> 300
    @@ "Audio.WakeWord.Enabled" :> TRUE
    @@ "Audio.WakeWord.Word" :> "jarvis"
    @@ "Audio.WakeWord.Threshold" :> Rat(7, 10)
    @@ "Hotkey.Enabled" :> TRUE
    @@ "Hotkey.Key" :> "F4"
    @@ "Hotkey.Mode" :> "hold"
    @@ "STT.Provider" :> "whisper"
    @@ "STT.Whisper.BinaryPath" :> "./bin/whisper"
    @@ "STT.Whisper.ModelPath" :> "./assets/models/whisper/ggml-base.bin"
    @@ "STT.Whisper.Language" :> "es"
    @@ "STT.OpenAI.APIKey" :> ""
    @@ "STT.OpenAI.Model" :> "whisper-1"
    @@ "LLM.Provider" :> "ollama"
    @@ "LLM.Ollama.URL" :> "http://localhost:11434"
    @@ "LLM.Ollama.Model" :> "llama3.2:3b"
    @@ "LLM.Ollama.TimeoutSeconds" :> 30
    @@ "LLM.OpenAI.APIKey" :> ""
    @@ "LLM.OpenAI.Model" :> "gpt-4o-mini"
    @@ "LLM.OpenAI.Temperature" :> Rat(3, 10)
    @@ "TTS.Provider" :> "piper"
    @@ "TTS.Piper.BinaryPath" :> "./bin/piper"
    @@ "TTS.Piper.ModelPath" :> "./assets/voices/piper/es_ES-davefx-medium.onnx"
    @@ "TTS.Piper.Speed" :> Rat(1, 1)
    @@ "TTS.OpenAI.APIKey" :> ""
    @@ "TTS.OpenAI.Model" :> "tts-1"
    @@ "TTS.OpenAI.Voice" :> "nova"
    @@ "Twitch.Enabled" :> FALSE
    @@ "Twitch.ClientID" :> ""
    @@ "Twitch.RedirectURI" :> "http://localhost:3000/callback"
    @@ "OBS.Enabled" :> FALSE
    @@ "OBS.URL" :> "ws://localhost:4455"
    @@ "Music.Enabled" :> TRUE
    @@ "Music.Folders" :> <<"./music">>
    @@ "Music.SupportedFormats" :> <<".mp3", ".wav", ".ogg", ".flac">>
    @@ "Music.DefaultVolume" :> Rat(1, 2)
    @@ "Music.Shuffle" :> FALSE
    @@ "Sounds.Enabled" :> TRUE
    @@ "Sounds.Wake" :> "./assets/sounds/wake.wav"
    @@ "Sounds.Error" :> "./assets/sounds/error.wav"
    @@ "Sounds.StartRecording" :> "./assets/sounds/beep_start.wav"
    @@ "Sounds.StopRecording" :> "./assets/sounds/beep_end.wav"

Fields == DOMAIN DefaultConfig

StringFields ==
    {"General.Language", "General.LogLevel", "General.DataDir",
     "Audio.Device", "Audio.WakeWord.Word", "Hotkey.Key", "Hotkey.Mode",
     "STT.Provider", "STT.Whisper.BinaryPath", "STT.Whisper.ModelPath",
     "STT.Whisper.Language", "STT.OpenAI.APIKey", "STT.OpenAI.Model",
     "LLM.Provider", "LLM.Ollama.URL", "LLM.Ollama.Model",
     "LLM.OpenAI.APIKey", "LLM.OpenAI.Model", "TTS.Provider",
     "TTS.Piper.BinaryPath", "TTS.Piper.ModelPath", "TTS.OpenAI.APIKey",
     "TTS.OpenAI.Model", "TTS.OpenAI.Voice", "Twitch.ClientID",
     "Twitch.RedirectURI", "OBS.URL", "Sounds.Wake", "Sounds.Error",
     "Sounds.StartRecording", "Sounds.StopRecording"}

IntFields ==
    {"Audio.SampleRate", "Audio.Channels", "Audio.ChunkSize",
     "Audio.VAD.SilenceThresholdMs", "Audio.VAD.MinSpeechMs",
     "LLM.Ollama.TimeoutSeconds"}

FloatFields ==
    {"Audio.VAD.Sensitivity", "Audio.WakeWord.Threshold",
     "LLM.OpenAI.Temperature", "TTS.Piper.Speed", "Music.DefaultVolume"}

BoolFields ==
    {"Audio.VAD.Enabled", "Audio.WakeWord.Enabled", "Hotkey.Enabled",
     "Twitch.Enabled", "OBS.Enabled", "Music.Enabled", "Music.Shuffle",
     "Sounds.Enabled"}

ListFields ==
    {"Music.Folders", "Music.SupportedFormats"}

\* The zero value of the field's type.
Zero(f) ==
    IF f \in StringFields THEN ""
    ELSE IF f \in IntFields THEN 0
    ELSE IF f \in FloatFields THEN RatInt(0)
    ELSE IF f \in BoolFields THEN FALSE
    ELSE <<>>

ZeroConfig == [f \in Fields |-> Zero(f)]

\* The values a configuration file gives to a field in this model.
FileValues ==
       "General.Language" :> {"en"}
    @@ "General.LogLevel" :> {"debug"}
    @@ "General.DataDir" :> {"/var/jarvis"}
    @@ "Audio.Device" :> {"usb"}
    @@ "Audio.SampleRate" :> {48000, -1}
    @@ "Audio.Channels" :> {2}
    @@ "Audio.ChunkSize" :> {512}
    @@ "Audio.VAD.Enabled" :> {TRUE, FALSE}
    @@ "Audio.VAD.Sensitivity" :> {Rat(9, 10), Rat(3, 2)}
    @@ "Audio.VAD.SilenceThresholdMs" :> {800}
    @@ "Audio.VAD.MinSpeechMs" :> {200}
    @@ "Audio.WakeWord.Enabled" :> {TRUE, FALSE}
    @@ "Audio.WakeWord.Word" :> {"computer"}
    @@ "Audio.WakeWord.Threshold" :> {Rat(9, 10)}
    @@ "Hotkey.Enabled" :> {TRUE, FALSE}
    @@ "Hotkey.Key" :> {"F9"}
    @@ "Hotkey.Mode" :> {"toggle", "press"}
    @@ "STT.Provider" :> {"openai", "azure"}
    @@ "STT.Whisper.BinaryPath" :> {"/opt/whisper"}
    @@ "STT.Whisper.ModelPath" :> {"/opt/ggml-small.bin"}
    @@ "STT.Whisper.Language" :> {"en"}
    @@ "STT.OpenAI.APIKey" :> {"sk-stt"}
    @@ "STT.OpenAI.Model" :> {"whisper-2"}
    @@ "LLM.Provider" :> {"openai", "auto"}
    @@ "LLM.Ollama.URL" :> {"http://gpu:11434"}
    @@ "LLM.Ollama.Model" :> {"mistral"}
    @@ "LLM.Ollama.TimeoutSeconds" :> {60}
    @@ "LLM.OpenAI.APIKey" :> {"sk-llm"}
    @@ "LLM.OpenAI.Model" :> {"gpt-4o"}
    @@ "LLM.OpenAI.Temperature" :> {Rat(1, 1)}
    @@ "TTS.Provider" :> {"openai", "auto"}
    @@ "TTS.Piper.BinaryPath" :> {"/opt/piper"}
    @@ "TTS.Piper.ModelPath" :> {"/opt/voice.onnx"}
    @@ "TTS.Piper.Speed" :> {Rat(3, 2)}
    @@ "TTS.OpenAI.APIKey" :> {"sk-tts"}
    @@ "TTS.OpenAI.Model" :> {"tts-1-hd"}
    @@ "TTS.OpenAI.Voice" :> {"alloy"}
    @@ "Twitch.Enabled" :> {TRUE, FALSE}
    @@ "Twitch.ClientID" :> {"client"}
    @@ "Twitch.RedirectURI" :> {"http://localhost:8080/cb"}
    @@ "OBS.Enabled" :> {TRUE, FALSE}
    @@ "OBS.URL" :> {"ws://studio:4455"}
    @@ "Music.Enabled" :> {TRUE, FALSE}
    @@ "Music.Folders" :> {<<"/srv/music">>}
    @@ "Music.SupportedFormats" :> {<<".mp3">>}
    @@ "Music.DefaultVolume" :> {Rat(4, 5), Rat(2, 1)}
    @@ "Music.Shuffle" :> {TRUE, FALSE}
    @@ "Sounds.Enabled" :> {TRUE, FALSE}
    @@ "Sounds.Wake" :> {"/snd/wake.wav"}
    @@ "Sounds.Error" :> {"/snd/error.wav"}
    @@ "Sounds.StartRecording" :> {"/snd/start.wav"}
    @@ "Sounds.StopRecording" :> {"/snd/stop.wav"}

\* The fields ApplyDefaults tests and fills.
Defaulted ==
    {"General.Language", "General.LogLevel", "General.DataDir",
     "Audio.Device", "Audio.SampleRate", "Audio.Channels",
     "Audio.ChunkSize", "Audio.VAD.SilenceThresholdMs",
     "Audio.VAD.MinSpeechMs", "Audio.WakeWord.Word",
     "Audio.WakeWord.Threshold", "Hotkey.Key", "Hotkey.Mode",
     "STT.Provider", "STT.Whisper.BinaryPath", "STT.Whisper.Language",
     "STT.OpenAI.Model", "LLM.Provider", "LLM.Ollama.URL",
     "LLM.Ollama.Model", "LLM.Ollama.TimeoutSeconds", "LLM.OpenAI.Model",
     "LLM.OpenAI.Temperature", "TTS.Provider", "TTS.Piper.BinaryPath",
     "TTS.Piper.Speed", "TTS.OpenAI.Model", "TTS.OpenAI.Voice",
     "Twitch.RedirectURI", "OBS.URL", "Music.Folders",
     "Music.SupportedFormats", "Music.DefaultVolume", "Sounds.Wake",
     "Sounds.Error", "Sounds.StartRecording", "Sounds.StopRecording"}

RECURSIVE FileConfigs(_)
\* The trees v.Unmarshal yields from files that give at most k fields.
FileConfigs(k) ==
    IF k = 0
    THEN {ZeroConfig}
    ELSE LET fewer == FileConfigs(k - 1)
         IN  fewer \cup UNION {UNION {{[c EXCEPT ![f] = v] : v \in FileValues[f]}
                                        : f \in Fields}
                                 : c \in fewer}

\* ApplyDefaults
ApplyDefaults(cfg) ==
    [f \in Fields |-> IF f \in Defaulted /\ cfg[f] = Zero(f)
                      THEN DefaultConfig[f]
                      ELSE cfg[f]]

Problem(cond, msg) == IF cond THEN <<msg>> ELSE <<>>

\* Validate: nil, or one error listing what is wrong.
Validate(cfg) ==
    LET stt == IF cfg["STT.Provider"] = "whisper"
               THEN <<>>
               ELSE IF cfg["STT.Provider"] = "openai"
               THEN Problem(cfg["STT.OpenAI.APIKey"] = "", "OpenAI API key required for STT")
               ELSE <<"invalid STT provider">>
        llm == IF cfg["LLM.Provider"] = "ollama"
               THEN Problem(cfg["LLM.Ollama.URL"] = "", "Ollama URL required")
                    \o Problem(cfg["LLM.Ollama.Model"] = "", "Ollama model required")
               ELSE IF cfg["LLM.Provider"] = "openai"
               THEN Problem(cfg["LLM.OpenAI.APIKey"] = "", "OpenAI API key required for LLM")
               ELSE IF cfg["LLM.Provider"] = "auto"
               THEN Problem(cfg["LLM.OpenAI.APIKey"] = "" /\ cfg["LLM.Ollama.URL"] = "",
                            "Auto LLM provider requires a backend")
               ELSE <<"invalid LLM provider">>
        tts == IF cfg["TTS.Provider"] = "piper"
               THEN <<>>
               ELSE IF cfg["TTS.Provider"] = "openai"
               THEN Problem(cfg["TTS.OpenAI.APIKey"] = "", "OpenAI API key required for TTS")
               ELSE IF cfg["TTS.Provider"] = "auto"
               THEN Problem(cfg["TTS.OpenAI.APIKey"] = "" /\ cfg["TTS.Piper.BinaryPath"] = "",
                            "Auto TTS provider requires a backend")
               ELSE <<"invalid TTS provider">>
        rest == Problem(cfg["Twitch.Enabled"] /\ cfg["Twitch.ClientID"] = "",
                        "Twitch client_id required")
                \o Problem(cfg["Audio.SampleRate"] <= 0, "audio sample_rate must be positive")
                \o Problem(cfg["Audio.Channels"] <= 0, "audio channels must be positive")
                \o Problem(\/ RatLess(cfg["Audio.VAD.Sensitivity"], RatInt(0))
                           \/ RatLess(RatInt(1), cfg["Audio.VAD.Sensitivity"]),
                           "VAD sensitivity must be between 0 and 1")
                \o Problem(/\ cfg["Hotkey.Enabled"]
                           /\ cfg["Hotkey.Mode"] # "hold"
                           /\ cfg["Hotkey.Mode"] # "toggle",
                           "hotkey mode must be 'hold' or 'toggle'")
                \o Problem(\/ RatLess(cfg["Music.DefaultVolume"], RatInt(0))
                           \/ RatLess(RatInt(1), cfg["Music.DefaultVolume"]),
                           "music default_volume must be between 0 and 1")
        errors == stt \o llm \o tts \o rest
    IN  IF errors = <<>> THEN NilErr ELSE E(errors)

\* What v.ReadInConfig and v.Unmarshal can answer.
ReadOutcomes == {"notfound", "readerror", "badfile", "ok"}

Load_ZeroTree(read, file) ==
    IF read = "ok"
    THEN [cfg |-> ApplyDefaults(file), isNil |-> FALSE, err |-> NilErr]
    ELSE [cfg |-> ZeroConfig, isNil |-> FALSE, err |-> NilErr]

\* Load, given the answer of the reader and the tree decoded from the file.
\* The strings of the model hold no environment reference, so expandEnvVars
\* leaves them as they are.
Load(read, file) ==
    IF read = "notfound"
    THEN [cfg |-> DefaultConfig, isNil |-> FALSE, err |-> NilErr]
    ELSE IF read = "readerror"
    THEN [cfg |-> ZeroConfig, isNil |-> TRUE, err |-> E(<<"error reading config file">>)]
    ELSE IF read = "badfile"
    THEN [cfg |-> ZeroConfig, isNil |-> TRUE, err |-> E(<<"error parsing config file">>)]
    ELSE LET cfg == ApplyDefaults(file)
             err == Validate(cfg)
         IN  IF err # NilErr
             THEN [cfg |-> ZeroConfig, isNil |-> TRUE,
                   err |-> E(<<"config validation error">> \o err.msg)]
             ELSE [cfg |-> cfg, isNil |-> FALSE, err |-> NilErr]

NoConfigLog == [op |-> "none", read |-> "", before |-> ZeroConfig, after |-> ZeroConfig,
                isNil |-> FALSE, err |-> NilErr]

ConfigInit ==
    /\ cfgTree \in FileConfigs(MaxFileKeys)
    /\ cfgLog = NoConfigLog

ConfigIdle ==
    /\ cfgTree = <<>>
    /\ cfgLog = <<>>

ConfigLoad(read) ==
    /\ cfgLog' = LET r == Load(read, cfgTree)
                 IN  [op |-> "load", read |-> read, before |-> cfgTree, after |-> r.cfg,
                      isNil |-> r.isNil, err |-> r.err]
    /\ UNCHANGED cfgTree

ConfigApplyDefaults ==
    /\ cfgLog.op # "apply"
    /\ cfgTree' = ApplyDefaults(cfgTree)
    /\ cfgLog' = [op |-> "apply", read |-> "", before |-> cfgTree, after |-> cfgTree',
                  isNil |-> FALSE, err |-> NilErr]

ConfigValidate ==
    /\ cfgLog' = [op |-> "validate", read |-> "", before |-> cfgTree, after |-> cfgTree,
                  isNil |-> FALSE, err |-> Validate(cfgTree)]
    /\ UNCHANGED cfgTree

ConfigOnly ==
    UNCHANGED <<calcVars, brainVars, twitchVars, musicVars, pipeVars, obsVars, autoVars,
                piperVars, reqVars>>

ConfigNext ==
    \/ \E read \in ReadOutcomes : ConfigLoad(read) /\ ConfigOnly
    \/ ConfigApplyDefaults /\ ConfigOnly
    \/ ConfigValidate /\ ConfigOnly

(***************************************************************************)
(* obs.Executor.sendRequest called concurrently, and the reply reader.     *)
(*                                                                         *)
(* Several callers run sendRequest at once on one connection.  A call is   *)
(* cut at every lock and at every atomic operation:                        *)
(*   "check"     before the connected check under e.mu                     *)
(*   "add"       before e.requestID.Add(1) and the make of the channel     *)
(*   "register"  before the insertion into e.responses                     *)
(*   "write"     before e.conn.WriteJSON under e.mu                        *)
(*   "wait"      in the select                                             *)
(*   "defer"     the return value is chosen, the deferred delete is due    *)
(* A reply channel lives as long as somebody holds it, so rqChans keeps    *)
(* every channel made, under the id it was made for; rqResponses is the    *)
(* key set of e.responses.  The server may send any frame at any time.     *)
(* The reader is at "read" in ReadJSON, or at "send" holding the channel   *)
(* it found, before `ch <- msg.D`; at "read" its payload is the frame it   *)
(* has just dropped, if any.                                               *)
(***************************************************************************)
MaxCallers == 2

MaxIds == 2

MaxFrames == 2

Callers == 1..MaxCallers

DigitChars == <<"0", "1", "2", "3", "4", "5", "6", "7", "8", "9">>

IsDigit(ch) == \E d \in 1..10 : DigitChars[d] = ch

DigitOf(ch) == (CHOOSE d \in 1..10 : DigitChars[d] = ch) - 1

RECURSIVE FormatID(_)
\* fmt.Sprintf("%d", reqID) for a positive reqID.
FormatID(n) ==
    IF n < 10
    THEN <<DigitChars[n + 1]>>
    ELSE FormatID(n \div 10) \o <<DigitChars[(n % 10) + 1]>>

RECURSIVE ScanDigits(_, _, _)
ScanDigits(s, i, acc) ==
    IF i > Len(s) \/ ~IsDigit(s[i])
    THEN acc
    ELSE ScanDigits(s, i + 1, acc * 10 + DigitOf(s[i]))

\* `var reqID int64; fmt.Sscanf(resp.RequestID, "%d", &reqID)`: the leading
\* digits, and 0 when there is none (the error of Sscanf is not looked at).
ParseID(s) == ScanDigits(s, 1, 0)

\* The requestId of the frames the server may send: the ids the executor can
\* issue, and one that is no number.
ServerFrames == {FormatID(i) : i \in 1..MaxIds} \cup {<<"x">>}

NextID_Reuses(counter) == IF counter = 0 THEN 1 ELSE counter

\* e.requestID.Add(1)
NextID(counter) == counter + 1

Unregister_Keeps(responses, reqID) == responses

\* The deferred delete(e.responses, reqID).
Unregister(responses, reqID) == responses \ {reqID}

Lookup_AnySlot(responses, reqID) ==
    IF responses = {} THEN 0 ELSE CHOOSE id \in responses : \A other \in responses : id <= other

\* `ch, ok := e.responses[reqID]`: the channel found, named by its id; 0 when
\* ok is false.
Lookup(responses, reqID) == IF reqID \in responses THEN reqID ELSE 0

NoReturn == [kind |-> "none", payload |-> <<>>]

Failure(text) == [kind |-> "error", payload |-> <<text>>]

CallOff == [pc |-> "off", id |-> 0, ret |-> NoReturn]

RequestsInit ==
    /\ rqConnected = TRUE
    /\ rqRequestID = 0
    /\ rqResponses = {}
    /\ rqChans = <<>>
    /\ rqCalls = [c \in Callers |-> CallOff]
    /\ rqWire = <<>>
    /\ rqFrames = 0
    /\ rqReader = [pc |-> "read", ch |-> 0, payload |-> <<>>]
    /\ rqIssued = <<>>

RequestsIdle ==
    /\ rqConnected = FALSE
    /\ rqRequestID = 0
    /\ rqResponses = {}
    /\ rqChans = <<>>
    /\ rqCalls = <<>>
    /\ rqWire = <<>>
    /\ rqFrames = 0
    /\ rqReader = <<>>
    /\ rqIssued = <<>>

\* A caller enters sendRequest.  The callers are interchangeable: a caller
\* makes its first call once the callers before it have made theirs.
RqCall(c) ==
    /\ rqCalls[c].pc = "off"
    /\ rqRequestID < MaxIds
    /\ \A d \in 1..(c - 1) : rqCalls[d] # CallOff
    /\ rqCalls' = [rqCalls EXCEPT ![c] = [CallOff EXCEPT !.pc = "check"]]
    /\ UNCHANGED <<rqConnected, rqRequestID, rqResponses, rqChans, rqWire, rqFrames, rqReader,
                   rqIssued>>

\* The connected check: without a connection the call returns before
\* anything is registered.
RqCheck(c) ==
    /\ rqCalls[c].pc = "check"
    /\ rqCalls' = IF rqConnected
                  THEN [rqCalls EXCEPT ![c].pc = "add"]
                  ELSE [rqCalls EXCEPT ![c] = [CallOff EXCEPT !.ret = Failure("not connected to OBS")]]
    /\ UNCHANGED <<rqConnected, rqRequestID, rqResponses, rqChans, rqWire, rqFrames, rqReader,
                   rqIssued>>

\* reqID := e.requestID.Add(1); respCh := make(chan json.RawMessage, 1)
RqAdd(c) ==
    /\ rqCalls[c].pc = "add"
    /\ LET reqID == NextID(rqRequestID)
       IN  /\ rqRequestID' = reqID
           /\ rqChans' = (reqID :> <<>>) @@ rqChans
           /\ rqCalls' = [rqCalls EXCEPT ![c].pc = "register", ![c].id = reqID]
           /\ rqIssued' = Append(rqIssued, reqID)
    /\ UNCHANGED <<rqConnected, rqResponses, rqWire, rqFrames, rqReader>>

\* e.responses[reqID] = respCh, under e.responsesMu
RqRegister(c) ==
    /\ rqCalls[c].pc = "register"
    /\ rqResponses' = rqResponses \cup {rqCalls[c].id}
    /\ rqCalls' = [rqCalls EXCEPT ![c].pc = "write"]
    /\ UNCHANGED <<rqConnected, rqRequestID, rqChans, rqWire, rqFrames, rqReader, rqIssued>>

\* e.conn.WriteJSON(msg), under e.mu
RqWrite(c, ok) ==
    /\ rqCalls[c].pc = "write"
    /\ rqCalls' = IF ok
                  THEN [rqCalls EXCEPT ![c].pc = "wait"]
                  ELSE [rqCalls EXCEPT ![c].pc = "defer",
                                       ![c].ret = Failure("failed to send request")]
    /\ UNCHANGED <<rqConnected, rqRequestID, rqResponses, rqChans, rqWire, rqFrames, rqReader,
                   rqIssued>>

\* The select: a reply is in the channel, the context is done, or the ten
\* seconds are over.
RqSelect(c, how) ==
    /\ rqCalls[c].pc = "wait"
    /\ LET id == rqCalls[c].id
       IN  IF how = "reply"
           THEN /\ rqChans[id] # <<>>
                /\ rqCalls' = [rqCalls EXCEPT ![c].pc = "defer",
                                              ![c].ret = [kind |-> "reply",
                                                          payload |-> Head(rqChans[id])]]
                /\ rqChans' = [rqChans EXCEPT ![id] = Tail(rqChans[id])]
           ELSE /\ rqCalls' = [rqCalls EXCEPT ![c].pc = "defer", ![c].ret = Failure(how)]
                /\ UNCHANGED rqChans
    /\ UNCHANGED <<rqConnected, rqRequestID, rqResponses, rqWire, rqFrames, rqReader, rqIssued>>

\* The deferred function, and the return.
RqDefer(c) ==
    /\ rqCalls[c].pc = "defer"
    /\ rqResponses' = Unregister(rqResponses, rqCalls[c].id)
    /\ rqCalls' = [rqCalls EXCEPT ![c].pc = "off"]
    /\ UNCHANGED <<rqConnected, rqRequestID, rqChans, rqWire, rqFrames, rqReader, rqIssued>>

\* The server sends a request-response frame.
ServerSend(frame) ==
    /\ rqFrames < MaxFrames
    /\ rqFrames' = rqFrames + 1
    /\ rqWire' = Append(rqWire, frame)
    /\ UNCHANGED <<rqConnected, rqRequestID, rqResponses, rqChans, rqCalls, rqReader, rqIssued>>

\* readMessages: ReadJSON returns a request-response frame; its id is parsed
\* and looked up under the read lock.
RqReaderRead ==
    /\ rqReader.pc = "read"
    /\ rqWire # <<>>
    /\ LET ch == Lookup(rqResponses, ParseID(Head(rqWire)))
       IN  rqReader' = IF ch # 0
                       THEN [pc |-> "send", ch |-> ch, payload |-> Head(rqWire)]
                       ELSE [pc |-> "read", ch |-> 0, payload |-> Head(rqWire)]
    /\ rqWire' = Tail(rqWire)
    /\ UNCHANGED <<rqConnected, rqRequestID, rqResponses, rqChans, rqCalls, rqFrames, rqIssued>>

\* readMessages: `ch <- msg.D` on a channel of capacity 1.
RqReaderSend ==
    /\ rqReader.pc = "send"
    /\ Len(rqChans[rqReader.ch]) < 1
    /\ rqChans' = [rqChans EXCEPT ![rqReader.ch] = Append(@, rqReader.payload)]
    /\ rqReader' = [pc |-> "read", ch |-> 0, payload |-> <<>>]
    /\ UNCHANGED <<rqConnected, rqRequestID, rqResponses, rqCalls, rqWire, rqFrames, rqIssued>>

\* readMessages: ReadJSON fails; the reader clears connected and ends.
RqReaderFails ==
    /\ rqReader.pc = "read"
    /\ rqConnected' = FALSE
    /\ rqReader' = [pc |-> "off", ch |-> 0, payload |-> <<>>]
    /\ UNCHANGED <<rqRequestID, rqResponses, rqChans, rqCalls, rqWire, rqFrames, rqIssued>>

\* Connect succeeds once the reader of the lost connection has ended.
RqConnect ==
    /\ ~rqConnected
    /\ rqReader.pc = "off"
    /\ rqConnected' = TRUE
    /\ rqReader' = [pc |-> "read", ch |-> 0, payload |-> <<>>]
    /\ rqWire' = <<>>
    /\ UNCHANGED <<rqRequestID, rqResponses, rqChans, rqCalls, rqFrames, rqIssued>>

RequestsOnly ==
    UNCHANGED <<calcVars, brainVars, twitchVars, musicVars, pipeVars, obsVars, autoVars,
                piperVars, cfgVars>>

RequestsNext ==
    \/ \E c \in Callers : RqCall(c) /\ RequestsOnly
    \/ \E c \in Callers : RqCheck(c) /\ RequestsOnly
    \/ \E c \in Callers : RqAdd(c) /\ RequestsOnly
    \/ \E c \in Callers : RqRegister(c) /\ RequestsOnly
    \/ \E c \in Callers, ok \in BOOLEAN : RqWrite(c, ok) /\ RequestsOnly
    \/ \E c \in Callers, how \in {"reply", "context canceled", "request timeout"} :
            RqSelect(c, how) /\ RequestsOnly
    \/ \E c \in Callers : RqDefer(c) /\ RequestsOnly
    \/ \E frame \in ServerFrames : ServerSend(frame) /\ RequestsOnly
    \/ RqReaderRead /\ RequestsOnly
    \/ RqReaderSend /\ RequestsOnly
    \/ RqReaderFails /\ RequestsOnly
    \/ RqConnect /\ RequestsOnly

(***************************************************************************)
(* The specifications.                                                     *)
(***************************************************************************)
vars == <<calcVars, brainVars, twitchVars, musicVars, pipeVars, obsVars, autoVars, piperVars, cfgVars, reqVars>>

InitCalc == CalcInit /\ BrainIdle /\ TwitchIdle /\ MusicIdle /\ PipelineIdle /\ ObsIdle /\ AutoIdle /\ PiperIdle /\ ConfigIdle /\ RequestsIdle

SpecCalc == InitCalc /\ [][CalcNext]_vars

InitBrain == CalcIdle /\ BrainInit /\ TwitchIdle /\ MusicIdle /\ PipelineIdle /\ ObsIdle /\ AutoIdle /\ PiperIdle /\ ConfigIdle /\ RequestsIdle

SpecBrain == InitBrain /\ [][BrainNext]_vars

InitTwitch == CalcIdle /\ BrainIdle /\ TwitchInit /\ MusicIdle /\ PipelineIdle /\ ObsIdle /\ AutoIdle /\ PiperIdle /\ ConfigIdle /\ RequestsIdle

SpecTwitch == InitTwitch /\ [][TwitchNext]_vars

InitMusic == CalcIdle /\ BrainIdle /\ TwitchIdle /\ MusicInit /\ PipelineIdle /\ ObsIdle /\ AutoIdle /\ PiperIdle /\ ConfigIdle /\ RequestsIdle

SpecMusic == InitMusic /\ [][MusicNext]_vars

InitPipeline == CalcIdle /\ BrainIdle /\ TwitchIdle /\ MusicIdle /\ PipelineInit /\ ObsIdle /\ AutoIdle /\ PiperIdle /\ ConfigIdle /\ RequestsIdle

SpecPipeline == InitPipeline /\ [][PipelineNext]_vars

\* Time passes, and a recorder whose select has a ready case takes it.
SpecPipelineLive ==
    /\ InitPipeline
    /\ [][PipelineNext]_vars
    /\ WF_vars(Tick /\ PipelineOnly)
    /\ \A t \in TaskIds : WF_vars(recordUntilSilence(t) /\ PipelineOnly)

InitBacklog ==
    /\ CalcIdle
    /\ BrainIdle
    /\ TwitchIdle
    /\ MusicIdle
    /\ BacklogInit
    /\ ObsIdle
    /\ AutoIdle
    /\ PiperIdle
    /\ ConfigIdle
    /\ RequestsIdle

SpecBacklog == InitBacklog /\ [][BacklogNext]_vars

InitObs == CalcIdle /\ BrainIdle /\ TwitchIdle /\ MusicIdle /\ PipelineIdle /\ ObsInit /\ AutoIdle /\ PiperIdle /\ ConfigIdle /\ RequestsIdle

SpecObs == InitObs /\ [][ObsNext]_vars

InitAuto == CalcIdle /\ BrainIdle /\ TwitchIdle /\ MusicIdle /\ PipelineIdle /\ ObsIdle /\ AutoInit /\ PiperIdle /\ ConfigIdle /\ RequestsIdle

SpecAuto == InitAuto /\ [][AutoNext]_vars

InitPiper == CalcIdle /\ BrainIdle /\ TwitchIdle /\ MusicIdle /\ PipelineIdle /\ ObsIdle /\ AutoIdle /\ PiperInit /\ ConfigIdle /\ RequestsIdle

SpecPiper == InitPiper /\ [][PiperNext]_vars

InitConfig == CalcIdle /\ BrainIdle /\ TwitchIdle /\ MusicIdle /\ PipelineIdle /\ ObsIdle /\ AutoIdle /\ PiperIdle /\ ConfigInit /\ RequestsIdle

SpecConfig == InitConfig /\ [][ConfigNext]_vars

InitRequests == CalcIdle /\ BrainIdle /\ TwitchIdle /\ MusicIdle /\ PipelineIdle /\ ObsIdle /\ AutoIdle /\ PiperIdle /\ ConfigIdle /\ RequestsInit

SpecRequests == InitRequests /\ [][RequestsNext]_vars

SessionTrace == <<"listening", "recording", "processing", "idle">>

Finalizing == {"snapshot", "stt", "brain", "speak", "end"}

\* C1: in a session started from idle by one wake word and not joined by
\* another trigger, the state changes are listening, then recording, then
\* processing, then idle: the state is recording while the recorder waits,
\* processing (what GetState returns) while the recording is finalized, and
\* idle once the finalization has completed.
C1_WakeWordSession ==
    /\ pipeLog.solo = "active" =>
          /\ IsPrefix(<<"listening", "recording">>, pipeLog.trace)
          /\ IsPrefix(pipeLog.trace, SessionTrace)
          /\ \A t \in TaskIds :
                /\ tasks[t].pc = "wait" => state = "recording"
                /\ tasks[t].pc \in Finalizing => state = "processing"
    /\ pipeLog.solo = "done" =>
          /\ pipeLog.trace = SessionTrace
          /\ state = "idle"

C1_Witness ==
    /\ pipeLog.solo = "done"
    /\ pipeLog.trace = SessionTrace
    /\ state = "idle"

\* C3: after music.stop is issued while the playback loop is running, the
\* loop terminates without starting a further track and the playing and
\* paused flags stay cleared.
C3_StopReachesLoop ==
    musicLog.stopInForce =>
        /\ ~musicLog.startedAfterStop
        /\ ~isPlaying
        /\ ~isPaused

\* C4: music.next issued while the last track of the playlist is playing
\* wraps the index to 0: the track the loop plays next is track 0, playback
\* does not end.
C4_NextWrapsToFirst ==
    (musicLog.nextArmed /\ musicLog.nextStarted # -1) => musicLog.nextStarted = 0

\* C5: music.previous issued at index 0 leaves the index at 0, for every
\* non-empty playlist, and returns a result.
C5_PreviousClampsAtZero ==
    musicLog.prevBefore = 0 => (musicLog.prevAfter = 0 /\ musicLog.prevReturned)

\* C6: after music.pause nothing is played until music.resume, and
\* music.resume restarts the loop at the index that was current when pause
\* was issued.
C6_PauseHoldsResumeReplays ==
    /\ musicLog.pauseInForce => (~musicLog.startedWhilePaused /\ RunningProcs = {})
    /\ (musicLog.resumeIdx # -1 /\ musicLog.pauseIdx # -1)
            => musicLog.resumeIdx = musicLog.pauseIdx

\* C13: an obs action dispatched through the registry while the executor is
\* enabled and not connected leads to a Connect attempt: the registry never
\* turns it away without one.
C13_LazyConnectThroughRegistry == obsLog.lazy # "refused"

\* C14: Connect succeeds, sets connected and starts the reader only if the
\* first frame is a hello and the frame after identify is an identified;
\* with any other opcode or a failed read or write it returns an error, the
\* socket is closed, connected stays false and no reader is started.
C14_ConnectNeedsHelloAndIdentified ==
    obsLog.connect.tried =>
        LET r == obsLog.connect
            a == r.ans
            handshake == /\ a.dial
                         /\ ~a.hello.err /\ a.hello.op = OpHello
                         /\ a.write
                         /\ ~a.ident.err /\ a.ident.op = OpIdentified
        IN  /\ r.ok => (handshake /\ r.connected /\ r.reader)
            /\ ~handshake => ~r.ok
            /\ ~r.ok => (r.closed /\ ~r.connected /\ ~r.reader)

C14_Witness ==
    /\ obsLog.connect.tried
    /\ obsLog.connect.ans.ident = Frame(OpHello)
    /\ ~obsLog.connect.ok
    /\ obsSockets # <<>>
    /\ obsSockets[Len(obsSockets)] = "closed"
    /\ ~obsConnected

\* C15: once Close has cleared the connection handle no goroutine calls a
\* method on it, and a sendRequest that starts after Close returns the
\* "not connected" error.
C15_NoUseAfterClose ==
    /\ ~obsLog.nilUse
    /\ obsLog.late # "sent"

\* C16: obs.volume clamps the volume to [0,1] and maps it to decibels:
\* 0 gives -100 dB, any other clamped value v gives 40 * (v - 1), so that
\* 1.0 gives 0 dB and 0.5 gives -20 dB.
C16_VolumeClampedAndMapped ==
    obsLog.volume.set =>
        LET v == obsLog.volume.in
            db == obsLog.volume.db
            clamped == IF v.n < 0 THEN RatInt(0) ELSE IF v.n > v.d THEN RatInt(1) ELSE v
        IN  /\ clamped = RatInt(0) => db = RatInt(-100)
            /\ clamped # RatInt(0) => db = Rat(40 * (clamped.n - clamped.d), clamped.d)
            /\ v = RatInt(1) => db = RatInt(0)
            /\ v = Rat(1, 2) => db = RatInt(-20)

C16_Witness ==
    /\ obsLog.volume.set
    /\ obsLog.volume.in = Rat(1, 2)
    /\ obsLog.volume.db = RatInt(-20)
    /\ obsReq.pc = "check"

\* C17: a recording finalized while less than the minimum speech duration
\* has passed since its speech onset is discarded: Transcribe is never
\* called for it.
C17_ShortSpeechDiscarded ==
    \A t \in TaskIds :
        tasks[t].pc = "stt" => ~(tasks[t].onset >= 0 /\ tasks[t].onset < MinSpeechTicks)

\* C18: a hotkey-up event handled while the state is recording starts the
\* finalization at once, in the run goroutine, on the buffer accumulated
\* since the press; handled in any other state it changes nothing.
C18_HotkeyReleaseFinalizes ==
    [][(hotkeyUp = 1 /\ hotkeyUp' = 0) =>
            IF state = "recording"
            THEN /\ tasks'[0].pc = "begin"
                 /\ ~MainReady'
                 /\ UNCHANGED <<state, audioBuffer>>
            ELSE UNCHANGED <<state, audioBuffer, tasks, hasSpeech, speechStart, silenceStart>>]_vars

C18_Witness ==
    /\ tasks[0].pc = "snapshot"
    /\ audioBuffer # <<>>
    /\ hotkeyUp = 0
    /\ \A t \in 1..MaxTasks : tasks[t].pc = "off"

\* C20: a frame taken from the queue is appended to the buffer if and only
\* if the state is listening or recording while it is handled, the frame
\* that starts a session from idle included; a frame handled in idle
\* without starting a session, or in processing, leaves the buffer alone.
C20_FramesBufferedWhileRecording ==
    [][/\ (audioIn = NoFrame /\ audioIn' # NoFrame) =>
            /\ audioIn' = [frame |-> Head(audioChan), entry |-> state]
            /\ state' \in {state, "recording"}
            /\ state' # state => (state = "idle" /\ audioBuffer' = <<>>)
            /\ state' = state => UNCHANGED audioBuffer
       /\ (audioIn # NoFrame /\ audioIn' = NoFrame) =>
            IF audioIn.entry \in {"listening", "recording"} \/ state \in {"listening", "recording"}
            THEN audioBuffer' = Append(audioBuffer, audioIn.frame)
            ELSE UNCHANGED audioBuffer]_vars

C20_Witness ==
    /\ audioBuffer = <<"loud", "quiet">>
    /\ state = "recording"
    /\ vadEnabled
    /\ audioChan = <<>>

\* C19: the four enqueue operations never block their caller: each can be
\* taken whatever the channels hold; a trigger leaves its channel with one
\* pending event, so one issued while one is pending is dropped; a frame
\* fed while the AudioChanCap-slot queue is full leaves the queue as it is.
C19_EnqueueNeverBlocks ==
    /\ [](/\ wakeWordChan \in {0, 1}
          /\ hotkeyDown \in {0, 1}
          /\ hotkeyUp \in {0, 1}
          /\ Len(audioChan) <= AudioChanCap
          /\ calls.triggers < MaxTriggers =>
                /\ ENABLED TriggerWakeWord
                /\ ENABLED TriggerHotkeyDown
                /\ ENABLED TriggerHotkeyUp
          /\ calls.frames < MaxFeed => \A frame \in Frames : ENABLED FeedAudio(frame))
    /\ [][/\ calls'.triggers # calls.triggers =>
                \E c \in {"wake", "down", "up"} :
                    /\ wakeWordChan' = IF c = "wake" THEN 1 ELSE wakeWordChan
                    /\ hotkeyDown' = IF c = "down" THEN 1 ELSE hotkeyDown
                    /\ hotkeyUp' = IF c = "up" THEN 1 ELSE hotkeyUp
                    /\ UNCHANGED audioChan
           /\ calls'.frames # calls.frames =>
                /\ Len(audioChan) = AudioChanCap => UNCHANGED audioChan
                /\ Len(audioChan) < AudioChanCap =>
                      \E frame \in Frames : audioChan' = Append(audioChan, frame)
                /\ UNCHANGED <<wakeWordChan, hotkeyDown, hotkeyUp>>]_vars

C19_Witness ==
    /\ mainPc = "new"
    /\ Len(audioChan) = AudioChanCap
    /\ calls.frames = AudioChanCap + 1 - Len(BacklogInitQueue)
    /\ wakeWordChan = 1
    /\ hotkeyDown = 0
    /\ hotkeyUp = 0
    /\ calls.triggers = 2

\* C21: every run of the finalization ends with the state idle; when
\* Transcribe or ProcessCommand fails, the error callback (if one is set)
\* is invoked and no reply is spoken for that turn.
C21_FailureReportedTurnAborted ==
    /\ [](\A t \in TaskIds :
            tasks[t].turn.failed # "none" =>
                /\ tasks[t].turn.reported \in {"called", "absent"}
                /\ ~tasks[t].turn.spoke)
    /\ [][\A t \in TaskIds :
            (tasks[t].pc = "end" /\ tasks'[t].pc = "off") => state' = "idle"]_vars

\* C22: a finalized utterance with a non-empty transcript whose first
\* ProcessCommand succeeds has ProcessCommand run exactly twice by the end
\* of the turn: once by the pipeline, once inside ProcessAndSpeak.
C22_CommandProcessedTwice ==
    \A t \in TaskIds :
        /\ tasks[t].pc = "speak" => tasks[t].turn.runs = 1
        /\ (tasks[t].pc = "end" /\ tasks[t].turn.runs >= 1 /\ tasks[t].turn.failed # "command")
              => tasks[t].turn.runs = 2
        /\ tasks[t].turn.runs <= 2

C22_Witness ==
    \E t \in TaskIds :
        /\ tasks[t].pc = "end"
        /\ tasks[t].turn.runs = 2
        /\ tasks[t].turn.failed = "none"
        /\ tasks[t].turn.spoke

\* C23: a recorder task that has started is not affected by a later Stop or
\* context cancellation: its wait ends only on its own silence condition
\* or at the recording ceiling.
C23_RecorderIgnoresLateStop ==
    [][\A t \in TaskIds :
            (tasks[t].pc = "wait" /\ tasks'[t].pc # "wait") =>
                \/ tasks[t].timer >= MaxRecordTicks
                \/ SilenceReached]_vars

FirstUp(call) ==
    LET ix == {i \in 1..Len(call.providers) : call.providers[i] \in call.up}
    IN  IF ix = {} THEN 0 ELSE CHOOSE i \in ix : \A j \in ix : i <= j

\* C24: Complete and CompleteRaw of the language-model composite go to the
\* first backend, in construction order, that reports available; when none
\* does they go to the first configured backend, so a call is always made.
C24_LLMFirstAvailableElseFirst ==
    autoCall.op \in {"Complete", "CompleteRaw"} =>
        /\ autoCall.err = NilErr
        /\ autoCall.provider =
              autoCall.providers[IF FirstUp(autoCall) = 0 THEN 1 ELSE FirstUp(autoCall)]

C24_Witness ==
    /\ autoCall.op = "CompleteRaw"
    /\ autoCall.providers = <<"ollama", "openai">>
    /\ autoCall.up = {}
    /\ autoCall.provider = "ollama"

InFlight == {c \in SpeakIds : piperPc[c] \in {"synth", "play", "run", "running"}}

Entering == {c \in SpeakIds : piperPc[c] \in {"stop", "relock"}}

\* C26: concurrent Speak calls on the local adapter are serialized: at most
\* one player process runs at any time, and the playing flag is set while
\* a call is in flight (and no call is in the middle of taking over).
C26_SpeakSerialized ==
    /\ Cardinality(piperProcs) <= 1
    /\ (InFlight # {} /\ Entering = {}) => piperIsPlaying

\* C29: a music.play whose query matches no file returns the failure result
\* "no music found" together with a nil error, and starts no playback loop.
C29_NoMatchNoPlayback ==
    [][(musicCmd'.op = "play" /\ playlist' = <<>>) =>
          /\ musicCmd'.pc = "idle"
          /\ ~musicCmd'.ok
          /\ musicCmd'.msg = "no music found"
          /\ musicCmd'.err = NilErr
          /\ ActiveLoops' \subseteq ActiveLoops]_vars

C29_Witness ==
    /\ musicCmd = Done("play", FALSE, "no music found", 0)
    /\ playlist = <<>>

\* C30: when an authenticated call has received 401 and the token refresh
\* fails, the call returns an error naming both the unauthorized condition
\* and the refresh failure, sends the original request no more, and leaves
\* the stored access and refresh tokens as they were.
C30_FailedRefreshEndsCall ==
    [][(twPc = "refresh" /\ (refreshToken = "" \/ twPc' # "request")) =>
          /\ twPc' = "done"
          /\ twResult'.body = ""
          /\ Len(twResult'.err) = 2
          /\ twResult'.err[1] = "unauthorized and failed to refresh token: "
          /\ twResult'.err[2] \in {"no refresh token available", "neterr", "rejected",
                                  "undecodable"}
          /\ twRequests' = twRequests
          /\ accessToken' = accessToken
          /\ refreshToken' = refreshToken]_vars

C30_Witness ==
    /\ twPc = "done"
    /\ twRequests = 1
    /\ twRefreshes = 1
    /\ twResult.err = <<"unauthorized and failed to refresh token: ", "rejected">>
    /\ accessToken # ""
    /\ refreshToken # ""

\* C27: loading with no configuration file present returns, without error,
\* the default tree (sample rate 16000, silence threshold 1500 ms, LLM
\* provider ollama at http://localhost:11434 with model llama3.2:3b, TTS
\* provider piper), and that tree passes Validate as it is.
C27_MissingFileGivesValidDefaults ==
    (cfgLog.op = "load" /\ cfgLog.read = "notfound") =>
        /\ cfgLog.err = NilErr
        /\ ~cfgLog.isNil
        /\ cfgLog.after = DefaultConfig
        /\ cfgLog.after["Audio.SampleRate"] = 16000
        /\ cfgLog.after["Audio.VAD.SilenceThresholdMs"] = 1500
        /\ cfgLog.after["LLM.Provider"] = "ollama"
        /\ cfgLog.after["LLM.Ollama.URL"] = "http://localhost:11434"
        /\ cfgLog.after["LLM.Ollama.Model"] = "llama3.2:3b"
        /\ cfgLog.after["TTS.Provider"] = "piper"
        /\ Validate(cfgLog.after) = NilErr

C27_Witness ==
    /\ cfgLog.op = "load"
    /\ cfgLog.read = "notfound"
    /\ cfgLog.after["LLM.Provider"] = "ollama"
    /\ cfgLog.err = NilErr

ValueFields == StringFields \cup IntFields \cup FloatFields

\* C28: ApplyDefaults gives every zero-valued string or numeric field whose
\* default is not zero that default, leaves every non-zero field as it is,
\* and applying it twice equals applying it once.
C28_ApplyDefaultsFillsEveryZero ==
    cfgLog.op = "apply" =>
        /\ \A f \in ValueFields :
              IF cfgLog.before[f] = Zero(f) /\ DefaultConfig[f] # Zero(f)
              THEN cfgLog.after[f] = DefaultConfig[f]
              ELSE cfgLog.after[f] = cfgLog.before[f]
        /\ ApplyDefaults(cfgLog.after) = cfgLog.after

\* The calls of sendRequest that hold an id and have not run their deferred
\* delete yet, from the registration on.
Registered == {c \in Callers : rqCalls[c].pc \in {"write", "wait", "defer"}}

\* C31: the reply table holds the id of a sendRequest call exactly from its
\* registration (which precedes the write) until the call returns, whatever
\* makes it return; the table is empty when no request is in flight.
C31_TableHoldsInFlightOnly ==
    /\ rqResponses = {rqCalls[c].id : c \in Registered}
    /\ \A c \in Callers : rqCalls[c].pc = "off" => rqCalls[c].id \notin rqResponses
    /\ (\A c \in Callers : rqCalls[c].pc = "off") => rqResponses = {}

C31_Witness ==
    /\ \E c \in Callers :
          /\ rqCalls[c].pc = "off"
          /\ rqCalls[c].ret = Failure("request timeout")
    /\ \E c \in Callers :
          /\ rqCalls[c].pc = "off"
          /\ rqCalls[c].ret.kind = "reply"
    /\ rqResponses = {}

\* C32: the ids issued by sendRequest are strictly increasing in the order
\* of issue, hence pairwise distinct, also for calls running concurrently:
\* two calls in flight never share a reply slot.
C32_IdsStrictlyIncreasing ==
    /\ \A i \in 1..Len(rqIssued) : \A j \in 1..Len(rqIssued) :
            i < j => rqIssued[i] < rqIssued[j]
    /\ \A c \in Callers : \A d \in Callers :
            (c # d /\ rqCalls[c].pc # "off" /\ rqCalls[d].pc # "off"
                   /\ rqCalls[c].id # 0 /\ rqCalls[d].id # 0)
                => rqCalls[c].id # rqCalls[d].id

C32_Witness ==
    /\ Len(rqIssued) = 2
    /\ \A c \in Callers : rqCalls[c].pc = "wait"

\* C33: a request-response frame carrying id X is handed only to the call
\* that issued X, and only to a channel that was registered when the frame
\* was looked up; a reply that arrives after its caller has returned is
\* dropped, never returned to another caller.
C33_ReplyReachesItsCallerOnly ==
    /\ \A c \in Callers :
            rqCalls[c].ret.kind = "reply" => ParseID(rqCalls[c].ret.payload) = rqCalls[c].id
    /\ \A id \in DOMAIN rqChans : \A k \in 1..Len(rqChans[id]) :
            ParseID(rqChans[id][k]) = id
    /\ rqReader.pc = "send" => ParseID(rqReader.payload) = rqReader.ch

\* A reply to request 1 was read after its caller had timed out, while
\* another call was waiting: it is not in that call's channel.
C33_Witness ==
    /\ rqReader = [pc |-> "read", ch |-> 0, payload |-> FormatID(1)]
    /\ \E c \in Callers :
          /\ rqCalls[c].pc = "off"
          /\ rqCalls[c].id = 1
          /\ rqCalls[c].ret = Failure("request timeout")
    /\ \E d \in Callers :
          /\ rqCalls[d].pc = "wait"
          /\ rqChans[rqCalls[d].id] = <<>>
    /\ rqChans[1] = <<>>

\* C34: recordUntilSilence always returns: a poll that finds speech observed
\* and the silence threshold reached ends it, and otherwise the recording
\* ceiling ends it, even if silence is never detected.
C34_RecorderAlwaysReturns ==
    \A t \in 1..MaxTasks : (tasks[t].pc = "wait") ~> (tasks[t].pc # "wait")

\* The ceiling has ended a wait during which no silence was detected.
C34_Witness ==
    \E t \in 1..MaxTasks :
        /\ tasks[t].pc = "begin"
        /\ Expired(tasks[t].timer)
        /\ ~SilenceReached
        /\ halted = "no"

\* C35: the audio handed to the STT provider is exactly what the buffer held
\* when the finalization took it, whatever the main loop appends to the
\* buffer or resets after that.
C35_SnapshotUnaltered ==
    \A t \in TaskIds : tasks[t].pc = "stt" => tasks[t].audio = tasks[t].taken

\* The locks held where the main loop writes hasSpeech, speechStart and
\* silenceStart (startRecording after it has released bufferMu, analyzeVAD
\* after handleAudio has), and where recordUntilSilence and
\* processRecordedAudio read them.
VadWriteLocks == {}

VadReadLocks == {}

\* handleAudio is about to call analyzeVAD.
MainWritesVad ==
    /\ mainPc = "select"
    /\ audioIn # NoFrame
    /\ vadEnabled
    /\ KeepsFrame(audioIn.entry, state)

\* Task t polls in recordUntilSilence, or is at the minimum speech check.
TaskReadsVad(t) == tasks[t].pc \in {"wait", "check"}

\* C36: hasSpeech, speechStart and silenceStart are accessed under mutual
\* exclusion: the main loop never writes them while a background task reads
\* them unless both hold a common lock.
C36_VadFieldsGuarded ==
    \A t \in 1..MaxTasks :
        (MainWritesVad /\ TaskReadsVad(t)) => VadWriteLocks \cap VadReadLocks # {}

FinalizingTasks == {t \in TaskIds : tasks[t].pc \notin {"off", "wait"}}

WaitingTasks == {t \in TaskIds : tasks[t].pc = "wait"}

\* C37: at most one finalization runs at a time and at most one background
\* task waits for silence, whatever wake words, hotkey events and frames
\* arrive.
C37_OneFinalizationAtATime ==
    /\ Cardinality(FinalizingTasks) <= 1
    /\ Cardinality(WaitingTasks) <= 1

\* C38: at most one playback loop and at most one player process of the
\* music executor are active at any time, whatever actions are issued.
C38_OneLoopOneProcess ==
    /\ Cardinality(ActiveLoops) <= 1
    /\ Cardinality(RunningProcs) <= 1

\* C39: the current index always satisfies 0 <= currentIdx <= len(playlist),
\* and no action and no loop reads the playlist at an index outside it.
C39_IndexWithinPlaylist ==
    /\ 0 <= currentIdx
    /\ currentIdx <= Len(playlist)
    /\ ~Crashed

\* The readers inside ReadJSON on socket i.
ReadersOn(i) == {k \in 1..MaxDials : obsReaders[k].pc = "read" /\ obsReaders[k].conn = i}

\* Reader k was started by the Connect that dialed socket k.
OneReaderPerConnection ==
    \A i \in 1..Len(obsSockets) : obsSockets[i] = "open" => Cardinality(ReadersOn(i)) <= 1

\* A reader inside ReadJSON on a live connection is the one started for it.
ReadersKeepToTheirConnection ==
    \A k \in 1..MaxDials :
        (obsReaders[k].pc = "read" /\ obsSockets[obsReaders[k].conn] = "open")
            => obsReaders[k].conn = k

\* connected goes from true to false in a step of Close, or of a reader
\* whose ReadJSON failed on the connection that is current.
ClearedByCurrentConnection ==
    (obsConnected /\ ~obsConnected') =>
        \/ obsConn' = 0
        \/ \E k \in 1..MaxDials :
                /\ obsReaders[k].pc = "read"
                /\ obsReaders'[k].pc = "off"
                /\ obsReaders[k].conn = obsConn
                /\ k = obsConn

\* C40: at most one reader runs per live connection, and connected is
\* cleared only by the failure or the Close of the current connection: a
\* reader left from an earlier connection neither marks a newer connection
\* as disconnected nor reads from it.
C40_StaleReaderIsHarmless ==
    [][/\ OneReaderPerConnection'
       /\ ReadersKeepToTheirConnection'
       /\ ClearedByCurrentConnection]_vars

====
